---- MODULE Spec2Model ----
(***************************************************************************)
(* Passive Modbus RTU monitor hub (custom_components/modbus_rtu_monitor):  *)
(* CRC-16 engine, frame codec, stream re-framer, request/response          *)
(* correlator, slave store, availability sweep and throttled notification. *)
(***************************************************************************)
EXTENDS Integers, Sequences, FiniteSets, TLC

(***************************************************************************)
(* Python values.  An Optional is a set: None is {} and a value v is {v}.  *)
(***************************************************************************)
None == {}

Some(v) == {v}

Get(o) == CHOOSE x \in o : TRUE

Min(a, b) == IF a < b THEN a ELSE b

(***************************************************************************)
(* const.py                                                                *)
(***************************************************************************)
TEMP_HUMIDITY_REGISTER == 131

SETPOINT_REGISTER == 144

REGISTER_COUNT == 4

COIL_START_ADDRESS == 1

COIL_COUNT == 40

REGISTER_START_ADDRESS == 165

REGISTER_MONITOR_COUNT == 20

REGISTER_START_ADDRESS_2 == 210

REGISTER_MONITOR_COUNT_2 == 8

REGISTER_START_ADDRESS_3 == 140

REGISTER_MONITOR_COUNT_3 == 23

\* timedelta(minutes=5), in seconds
AVAILABILITY_TIMEOUT == 300

\* timedelta(seconds=5), in seconds
COORDINATOR_UPDATE_INTERVAL == 5

\* max_iterations of the re-framer's inner loop
MAX_ITERATIONS == 100

\* range(4, min(len(buffer) + 1, 256)): the exclusive upper limit of frame_len
FRAME_LEN_LIMIT == 256

(***************************************************************************)
(* Evaluation.  An operator's argument is re-evaluated at every use, a     *)
(* function's argument and a bound variable are evaluated once; the loops  *)
(* of the code are therefore functions, or bind their state with LetVal,   *)
(* and long loops are split in halves to keep the evaluation stack short.  *)
(* The functions on numbers take Nat as their domain so that they are      *)
(* applied on demand and never tabulated.                                  *)
(***************************************************************************)
\* "v = e" followed by Body(v)
LetVal(e, Body(_)) == CHOOSE r \in { Body(v) : v \in {e} } : TRUE

Byte == 0..255

(***************************************************************************)
(* Integer bit operations on unsigned 16-bit values.                       *)
(***************************************************************************)
RECURSIVE XorBits(_, _, _)
XorBits(a, b, n) ==
    IF n = 0 THEN 0
    ELSE ((a + b) % 2) + 2 * XorBits(a \div 2, b \div 2, n - 1)

\* a ^ b on 4-bit operands, tabulated once
Xor4 == [a \in 0..15 |-> [b \in 0..15 |-> XorBits(a, b, 4)]]

\* a ^ b
Xor16[a \in Nat, b \in Nat] ==
    Xor4[a % 16][b % 16]
    + 16 * Xor4[(a \div 16) % 16][(b \div 16) % 16]
    + 256 * Xor4[(a \div 256) % 16][(b \div 256) % 16]
    + 4096 * Xor4[(a \div 4096) % 16][(b \div 4096) % 16]

\* 1 << n
RECURSIVE Pow2(_)
Pow2(n) == IF n = 0 THEN 1 ELSE 2 * Pow2(n - 1)

\* a bit test that counts the bits from the most significant one
BitSetMSB(byte_val, bit_idx) == (byte_val \div Pow2(7 - bit_idx)) % 2 = 1

\* bool(byte_val & (1 << bit_idx))
BitSet(byte_val, bit_idx) == (byte_val \div Pow2(bit_idx)) % 2 = 1

(***************************************************************************)
(* ModbusRTUDecoder.calculate_crc                                          *)
(***************************************************************************)
\* "if crc & 0x0001: crc = (crc >> 1) ^ 0xA001 else: crc >>= 1"
ShiftBit[crc \in Nat] ==
    IF crc % 2 = 1 THEN Xor16[crc \div 2, 40961] ELSE crc \div 2

\* "for _ in range(8)", n passes left
CrcShift[n \in Nat, crc \in Nat] ==
    IF n = 0 THEN crc ELSE CrcShift[n - 1, ShiftBit[crc]]

\* "crc ^= byte" and the eight shifts
CrcByte[crc \in Nat, byte \in Nat] == CrcShift[8, Xor16[crc, byte]]

\* "crc = 0xFFFF; for byte in data: ...": bytes lo..hi in order, from crc
calculate_crc[data \in Seq(Byte)] ==
    LET fold[crc \in Nat, lo \in Nat, hi \in Nat] ==
            IF lo > hi THEN crc
            ELSE IF lo = hi THEN CrcByte[crc, data[lo]]
            ELSE fold[fold[crc, lo, (lo + hi) \div 2],
                      ((lo + hi) \div 2) + 1, hi]
    IN  fold[65535, 1, Len(data)]

\* struct.pack(">H", v) and struct.pack("<H", v)
PackBE(v) == << v \div 256, v % 256 >>

PackLE(v) == << v % 256, v \div 256 >>

\* struct.unpack(">H", b)[0] and struct.unpack("<H", b)[0] on two bytes
UnpackBE(b) == 256 * b[1] + b[2]

\* two bytes read high byte first
UnpackHighFirst(b) == 256 * b[1] + b[2]

UnpackLE(b) == b[1] + 256 * b[2]

(***************************************************************************)
(* ModbusRTUDecoder.build_write_register_frame                             *)
(***************************************************************************)
\* the same frame with the CRC high byte first
BuildCrcHighFirst(slave_id, register, value) ==
    LET frame == << slave_id, 6 >> \o PackBE(register) \o PackBE(value)
    IN  frame \o PackBE(calculate_crc[frame])

build_write_register_frame(slave_id, register, value) ==
    LET frame == << slave_id, 6 >> \o PackBE(register) \o PackBE(value)
    IN  frame \o PackLE(calculate_crc[frame])

(***************************************************************************)
(* ModbusRTUDecoder.decode_frame                                           *)
(***************************************************************************)
\* the coil bitmap: byte_count bytes after the count byte, 8 coils each, LSB first
UnpackCoils(frame_data, byte_count) ==
    [k \in 1..(8 * byte_count) |->
        BitSet(frame_data[((k - 1) \div 8) + 2], (k - 1) % 8)]

\* for i in range(0, byte_count, 2): if i + 1 < byte_count: unpack frame_data[i+1:i+3]
UnpackRegisters(frame_data, byte_count) ==
    [k \in 1..(byte_count \div 2) |->
        UnpackBE(SubSeq(frame_data, 2 * k, 2 * k + 1))]

\* ModbusRTUFrame(...) with the dataclass defaults
ModbusRTUFrame(slave_id, function_code, data) ==
    [slave_id |-> slave_id, function_code |-> function_code, data |-> data,
     is_request |-> FALSE, is_response |-> FALSE,
     start_address |-> None, register_count |-> None,
     values |-> None, coil_values |-> None]

\* the shape classification that follows the CRC check
ClassifyFrame(decoded) ==
    LET frame_data == decoded.data
        function_code == decoded.function_code
    IN  IF function_code = 1 /\ Len(frame_data) = 4
        THEN [decoded EXCEPT !.is_request = TRUE,
                 !.start_address = Some(UnpackBE(SubSeq(frame_data, 1, 2))),
                 !.register_count = Some(UnpackBE(SubSeq(frame_data, 3, 4)))]
        ELSE IF function_code = 1 /\ Len(frame_data) > 1
        THEN IF Len(frame_data) >= frame_data[1] + 1
             THEN [decoded EXCEPT !.is_response = TRUE,
                      !.coil_values = Some(UnpackCoils(frame_data, frame_data[1]))]
             ELSE decoded
        ELSE IF function_code = 3 /\ Len(frame_data) = 4
        THEN [decoded EXCEPT !.is_request = TRUE,
                 !.start_address = Some(UnpackBE(SubSeq(frame_data, 1, 2))),
                 !.register_count = Some(UnpackBE(SubSeq(frame_data, 3, 4)))]
        ELSE IF function_code = 3 /\ Len(frame_data) > 1
        THEN IF Len(frame_data) >= frame_data[1] + 1
             THEN [decoded EXCEPT !.is_response = TRUE,
                      !.values = Some(UnpackRegisters(frame_data, frame_data[1]))]
             ELSE decoded
        ELSE decoded

\* None ({}) when too short or the CRC does not match, else {frame}
decode_frame[data \in Seq(Byte)] ==
    IF Len(data) < 4 THEN None
    ELSE LET received_crc == UnpackLE(SubSeq(data, Len(data) - 1, Len(data)))
             calculated_crc == calculate_crc[SubSeq(data, 1, Len(data) - 2)]
         IN  IF received_crc # calculated_crc THEN None
             ELSE Some(ClassifyFrame(
                      ModbusRTUFrame(data[1], data[2],
                                     SubSeq(data, 3, Len(data) - 2))))

(***************************************************************************)
(* Python dict helpers.  A dict is a function; {} is the empty function.   *)
(***************************************************************************)
EmptyDict == << >>

DictPut(d, k, v) == (k :> v) @@ d

DictDel(d, k) == [x \in (DOMAIN d) \ {k} |-> d[x]]

\* Python truthiness of an Optional[list]: neither None nor empty
Truthy(o) == o # None /\ Len(Get(o)) > 0

(***************************************************************************)
(* State.                                                                  *)
(*   reader, writer        hub._reader / hub._writer (None or an open      *)
(*                         stream)                                         *)
(*   buffer                the monitor loop's bytearray                    *)
(*   discovered_slaves     hub.discovered_slaves: slave id -> SlaveData    *)
(*   pending_requests      hub._pending_requests: key -> entry; the key    *)
(*                         f"{slave_id}<suffix>" is <<slave_id, suffix>>,  *)
(*                         the bare int key of discovery has suffix ""     *)
(*   last_coordinator_update  hub._last_coordinator_update (seconds)       *)
(*   updates               calls of coordinator.async_set_updated_data     *)
(*   unreported            a store change has called                       *)
(*                         _update_coordinator_throttled since the last    *)
(*                         notification and was not passed on              *)
(*   surfaced              the slave ids in the store at the latest        *)
(*                         coordinator.async_set_updated_data              *)
(*   now                   utcnow(), in whole seconds                      *)
(*   reads                 batches read by the monitor loop (bounds it)    *)
(*   handled               the frames the latest batch handed to           *)
(*                         _handle_frame, in order                         *)
(*   cleared               the number of bytes the latest buffer.clear()   *)
(*                         of a reconnect threw away                       *)
(*   reconnected           the loop reconnected and has not read since     *)
(*   write_lock            hub._write_lock: None or the caller holding it  *)
(*   calls                 the async_write_setpoint call of each caller:   *)
(*                         where it stands, its arguments, how the last    *)
(*                         one ended                                       *)
(*   transport             the bytes given to writer.write() so far        *)
(*   writes                async_write_setpoint calls made (bounds them)   *)
(*   close_pc              where async_close stands                        *)
(*   _attr_target_temperature  the target temperature each climate entity  *)
(*                         caches, by slave id, in hundredths of a degree  *)
(*   target_before         what the entity cached when the                 *)
(*                         async_set_temperature call of each caller began *)
(*   window, returned      decoder specification: the bytes given to       *)
(*                         decode_frame and what it has returned           *)
(*   stream, pos, emitted  re-framer specification: the byte stream the    *)
(*                         gateway sends, how much of it has arrived, and  *)
(*                         all frames handed to _handle_frame so far       *)
(***************************************************************************)
VARIABLES reader, writer, buffer, discovered_slaves, pending_requests,
          last_coordinator_update, updates, unreported, surfaced, now, reads,
          handled, cleared, reconnected, write_lock, calls, transport, writes,
          close_pc, stream, pos, emitted, window, returned,
          _attr_target_temperature, target_before

vars == << reader, writer, buffer, discovered_slaves, pending_requests,
           last_coordinator_update, updates, unreported, surfaced, now, reads,
           handled, cleared, reconnected, write_lock, calls, transport, writes,
           close_pc, stream, pos, emitted, window, returned,
           _attr_target_temperature, target_before >>

connVars == << reader, writer >>

hubVars == << discovered_slaves, pending_requests, last_coordinator_update,
              updates, unreported, surfaced >>

writeVars == << write_lock, calls, transport, writes >>

\* the climate entities
climateVars == << _attr_target_temperature, target_before >>

clockVars == << now >>

decodeVars == << window, returned >>

\* the variables of the re-framer and decoder specifications
streamVars == << stream, pos, emitted, decodeVars >>

(***************************************************************************)
(* SlaveData and the pending entries                                       *)
(***************************************************************************)
\* slave data that is born available
NewSlaveDataAvailable(slave_id, t) ==
    [slave_id |-> slave_id, temperature |-> None, humidity |-> None,
     last_seen |-> t, available |-> TRUE, coils |-> None,
     registers |-> None, setpoint |-> None]

\* SlaveData(slave_id=..., temperature=None, humidity=None, last_seen=utcnow(),
\*           available=False) with the dataclass defaults for the rest
NewSlaveData(slave_id, t) ==
    [slave_id |-> slave_id, temperature |-> None, humidity |-> None,
     last_seen |-> t, available |-> FALSE, coils |-> None,
     registers |-> None, setpoint |-> None]

PendingEntry(slave_id, t, type, start_address) ==
    [timestamp |-> t, slave_id |-> slave_id, type |-> type,
     start_address |-> start_address]

\* a division that loses the fractional digit
Div10Whole(raw) == [whole |-> raw \div 10, tenths |-> 0]

\* temp_raw / 10.0: a decimal with one fractional digit
Div10(raw) == [whole |-> raw \div 10, tenths |-> raw % 10]

\* a hub value: the fields _handle_frame reads and writes, whether the
\* listener behind coordinator.async_set_updated_data returns or raises, and
\* whether the handler raised
Hub(slaves, pending, last_update, n_updates) ==
    [slaves |-> slaves, pending |-> pending, last_update |-> last_update,
     updates |-> n_updates, unreported |-> FALSE, surfaced |-> {},
     listener_ok |-> TRUE, raised |-> FALSE]

(***************************************************************************)
(* ModbusRTUMonitorHub._should_update_coordinator /                        *)
(* _update_coordinator_throttled (hub.coordinator is set before the tasks  *)
(* start, __init__.py)                                                     *)
(***************************************************************************)
\* a throttle that lets every notification through
AlwaysUpdate(h, t) == TRUE

_should_update_coordinator(h, t) ==
    (t - h.last_update) >= COORDINATOR_UPDATE_INTERVAL

_update_coordinator_throttled(h, t) ==
    IF _should_update_coordinator(h, t)
    THEN IF h.listener_ok
         THEN [h EXCEPT !.updates = @ + 1, !.last_update = t,
                        !.unreported = FALSE, !.surfaced = DOMAIN h.slaves]
         ELSE [h EXCEPT !.raised = TRUE]
    ELSE [h EXCEPT !.unreported = TRUE]

(***************************************************************************)
(* ModbusRTUMonitorHub._handle_frame                                       *)
(***************************************************************************)
\* "if slave_id not in self.discovered_slaves: ... = SlaveData(...)"
EnsureSlave(slaves, slave_id, t) ==
    IF slave_id \in DOMAIN slaves THEN slaves
    ELSE DictPut(slaves, slave_id, NewSlaveData(slave_id, t))

\* a conversion that keeps the unsigned value
Unsigned(value) == value

\* "if value > 32767: signed_value = value - 65536 else: signed_value = value"
SignedValue(value) == IF value > 32767 THEN value - 65536 ELSE value

\* "for idx, value in enumerate(frame.values):
\*      slave_data.registers[start_addr + idx] = signed_value"
StoreRegisters(registers, start_addr, values) ==
    LET old == IF registers = None THEN EmptyDict ELSE Get(registers)
        written == {start_addr + (k - 1) : k \in 1..Len(values)}
    IN  Some([a \in (DOMAIN old) \cup written |->
                IF a \in written THEN SignedValue(values[a - start_addr + 1])
                ELSE old[a]])

\* request branches: record the pending entry under <<slave_id, suffix>>
RecordRequest(h, slave_id, suffix, type, start_address, t) ==
    [h EXCEPT !.pending =
        DictPut(@, << slave_id, suffix >>,
                PendingEntry(slave_id, t, type, start_address))]

\* a Read Coils response branch that stores the whole decoded list
CoilsResponseAll(h, frame, t) ==
    LET slave_id == frame.slave_id
        slaves == EnsureSlave(h.slaves, slave_id, t)
        slave_data == [slaves[slave_id] EXCEPT
                          !.coils = frame.coil_values,
                          !.last_seen = t,
                          !.available = TRUE]
    IN  _update_coordinator_throttled(
            [h EXCEPT !.slaves = DictPut(slaves, slave_id, slave_data),
                      !.pending = DictDel(@, << slave_id, "_coils" >>)], t)

\* Read Coils response branch
CoilsResponse(h, frame, t) ==
    LET slave_id == frame.slave_id
        slaves == EnsureSlave(h.slaves, slave_id, t)
        slave_data == [slaves[slave_id] EXCEPT
                          !.coils = Some(SubSeq(Get(frame.coil_values), 1,
                                         Min(COIL_COUNT,
                                             Len(Get(frame.coil_values))))),
                          !.last_seen = t,
                          !.available = TRUE]
    IN  _update_coordinator_throttled(
            [h EXCEPT !.slaves = DictPut(slaves, slave_id, slave_data),
                      !.pending = DictDel(@, << slave_id, "_coils" >>)], t)

\* Read Holding Registers response branch of the range stored under suffix
RegistersResponse(h, frame, suffix, t) ==
    LET slave_id == frame.slave_id
        slaves == EnsureSlave(h.slaves, slave_id, t)
        start_addr == Get(h.pending[<< slave_id, suffix >>].start_address)
        slave_data == [slaves[slave_id] EXCEPT
                          !.registers = StoreRegisters(@, start_addr,
                                                       Get(frame.values)),
                          !.last_seen = t,
                          !.available = TRUE]
    IN  _update_coordinator_throttled(
            [h EXCEPT !.slaves = DictPut(slaves, slave_id, slave_data),
                      !.pending = DictDel(@, << slave_id, suffix >>)], t)

\* a discovery request branch that records the request and creates no slave
DiscoveryRequestOnly(h, frame, t) ==
    [h EXCEPT !.pending =
        DictPut(@, << frame.slave_id, "" >>,
                PendingEntry(frame.slave_id, t, None, None))]

\* discovery request branch
DiscoveryRequest(h, frame, t) ==
    LET slave_id == frame.slave_id
        h1 == [h EXCEPT !.pending =
                  DictPut(@, << slave_id, "" >>,
                          PendingEntry(slave_id, t, None, None))]
    IN  IF slave_id \notin DOMAIN h.slaves
        THEN _update_coordinator_throttled(
                 [h1 EXCEPT !.slaves =
                     DictPut(@, slave_id, NewSlaveData(slave_id, t))], t)
        ELSE h1

\* temperature/humidity response branch; self.discovered_slaves[slave_id]
\* raises KeyError when the slave is missing
DiscoveryResponse(h, frame, t) ==
    LET slave_id == frame.slave_id
        values == Get(frame.values)
    IN  IF slave_id \notin DOMAIN h.slaves
        THEN [h EXCEPT !.raised = TRUE]
        ELSE _update_coordinator_throttled(
                 [h EXCEPT !.slaves[slave_id] =
                               [@ EXCEPT !.temperature = Some(Div10(values[3])),
                                         !.humidity = Some(Div10(values[4])),
                                         !.last_seen = t,
                                         !.available = TRUE],
                           !.pending = DictDel(@, << slave_id, "" >>)], t)

\* a handler that takes every response as news of its slave
HandleAnyResponse(h, frame, t) ==
    IF frame.is_response
    THEN [h EXCEPT !.slaves = EnsureSlave(@, frame.slave_id, t)]
    ELSE h

\* a handler that takes a Write Single Register frame as news of its slave
HandleWriteEcho(h, frame, t) ==
    IF frame.function_code = 6
    THEN [h EXCEPT !.slaves = EnsureSlave(@, frame.slave_id, t)]
    ELSE h

\* the if / elif chain, in source order
_handle_frame(h, frame, t) ==
    LET slave_id == frame.slave_id
        keys == DOMAIN h.pending
    IN  IF /\ frame.is_request
           /\ frame.function_code = 1
           /\ frame.start_address = Some(COIL_START_ADDRESS)
           /\ frame.register_count = Some(COIL_COUNT)
        THEN RecordRequest(h, slave_id, "_coils", Some("coils"), None, t)
        ELSE IF /\ frame.is_response
                /\ frame.function_code = 1
                /\ << slave_id, "_coils" >> \in keys
                /\ Truthy(frame.coil_values)
        THEN CoilsResponse(h, frame, t)
        ELSE IF /\ frame.is_request
                /\ frame.function_code = 3
                /\ frame.start_address = Some(REGISTER_START_ADDRESS)
                /\ frame.register_count = Some(REGISTER_MONITOR_COUNT)
        THEN RecordRequest(h, slave_id, "_registers", Some("registers"),
                           frame.start_address, t)
        ELSE IF /\ frame.is_response
                /\ frame.function_code = 3
                /\ << slave_id, "_registers" >> \in keys
                /\ Truthy(frame.values)
        THEN RegistersResponse(h, frame, "_registers", t)
        ELSE IF /\ frame.is_request
                /\ frame.function_code = 3
                /\ frame.start_address = Some(REGISTER_START_ADDRESS_2)
                /\ frame.register_count = Some(REGISTER_MONITOR_COUNT_2)
        THEN RecordRequest(h, slave_id, "_registers2", Some("registers2"),
                           frame.start_address, t)
        ELSE IF /\ frame.is_response
                /\ frame.function_code = 3
                /\ << slave_id, "_registers2" >> \in keys
                /\ Truthy(frame.values)
        THEN RegistersResponse(h, frame, "_registers2", t)
        ELSE IF /\ frame.is_request
                /\ frame.function_code = 3
                /\ frame.start_address = Some(REGISTER_START_ADDRESS_3)
                /\ frame.register_count = Some(REGISTER_MONITOR_COUNT_3)
        THEN RecordRequest(h, slave_id, "_registers3", Some("registers3"),
                           frame.start_address, t)
        ELSE IF /\ frame.is_response
                /\ frame.function_code = 3
                /\ << slave_id, "_registers3" >> \in keys
                /\ Truthy(frame.values)
        THEN RegistersResponse(h, frame, "_registers3", t)
        ELSE IF /\ frame.is_request
                /\ frame.start_address = Some(TEMP_HUMIDITY_REGISTER)
                /\ frame.register_count = Some(REGISTER_COUNT)
        THEN DiscoveryRequest(h, frame, t)
        ELSE IF /\ frame.is_response
                /\ << slave_id, "" >> \in keys
                /\ Truthy(frame.values)
                /\ Len(Get(frame.values)) >= 4
        THEN DiscoveryResponse(h, frame, t)
        ELSE h

(***************************************************************************)
(* ModbusRTUMonitorHub._monitor_loop: the re-framer's inner loop           *)
(***************************************************************************)
\* "for frame_len in range(4, min(len(buffer) + 1, 256))": the frame_len at
\* which the loop breaks (any decoded frame object is truthy), 0 when it runs
\* to its end; the range lo..hi is searched in order, first half first
FindFrame(buf) ==
    LET first[lo \in Nat, hi \in Nat] ==
            IF lo > hi THEN 0
            ELSE IF lo = hi
            THEN IF decode_frame[SubSeq(buf, 1, lo)] # None THEN lo ELSE 0
            ELSE LetVal(first[lo, (lo + hi) \div 2],
                        LAMBDA frame_len :
                            IF frame_len # 0 THEN frame_len
                            ELSE first[((lo + hi) \div 2) + 1, hi])
    IN  first[4, Min(Len(buf) + 1, FRAME_LEN_LIMIT) - 1]

\* the body of "while len(buffer) >= 4 and iterations < max_iterations" on the
\* loop state st; _handle_frame runs before the frame's bytes are cut off, so
\* a raise leaves them in the buffer and ends the loop
HandleFound(st, frame_len, t) ==
    LetVal(Get(decode_frame[SubSeq(st.buffer, 1, frame_len)]),
           LAMBDA decoded :
               LetVal(_handle_frame(st.hub, decoded, t),
                      LAMBDA h2 :
                          IF h2.raised
                          THEN [st EXCEPT !.hub = h2,
                                          !.emitted = Append(@, decoded)]
                          ELSE [buffer |-> SubSeq(st.buffer, frame_len + 1,
                                                  Len(st.buffer)),
                                iterations |-> st.iterations + 1,
                                hub |-> h2,
                                emitted |-> Append(st.emitted, decoded)]))

LoopRuns(st) ==
    Len(st.buffer) >= 4 /\ st.iterations < MAX_ITERATIONS /\ ~st.hub.raised

\* a loop body that keeps the first byte when it finds no frame
LoopBodyKeep(st, t) ==
    IF ~LoopRuns(st) THEN st
    ELSE LetVal(FindFrame(st.buffer),
                LAMBDA frame_len :
                    IF frame_len = 0
                    THEN [st EXCEPT !.iterations = @ + 1]
                    ELSE HandleFound(st, frame_len, t))

LoopBody(st, t) ==
    IF ~LoopRuns(st) THEN st
    ELSE LetVal(FindFrame(st.buffer),
                LAMBDA frame_len :
                    IF frame_len = 0
                    THEN [st EXCEPT !.buffer = Tail(@),
                                    !.iterations = @ + 1]
                    ELSE HandleFound(st, frame_len, t))

\* n passes of the while loop (a pass after the loop has ended changes nothing)
RECURSIVE FrameLoop(_, _, _)
FrameLoop(st, n, t) ==
    IF n = 0 \/ ~LoopRuns(st) THEN st
    ELSE IF n = 1 THEN LoopBody(st, t)
    ELSE LetVal(FrameLoop(st, n \div 2, t),
                LAMBDA mid : FrameLoop(mid, n - (n \div 2), t))

\* "buffer.extend(data)" and the inner loop, from the hub's present state
ProcessBatch(buf, data, h, t) ==
    LetVal([buffer |-> buf \o data, iterations |-> 0, hub |-> h,
            emitted |-> << >>],
           LAMBDA st : FrameLoop(st, MAX_ITERATIONS, t))

CurrentHub ==
    [Hub(discovered_slaves, pending_requests, last_coordinator_update,
         updates) EXCEPT !.unreported = unreported, !.surfaced = surfaced]

SetHub(h) ==
    /\ discovered_slaves' = h.slaves
    /\ pending_requests' = h.pending
    /\ last_coordinator_update' = h.last_update
    /\ updates' = h.updates
    /\ unreported' = h.unreported
    /\ surfaced' = h.surfaced

(***************************************************************************)
(* Inputs: the traffic of the bus, as the bytes the gateway forwards.      *)
(***************************************************************************)
\* [slave_id][function_code][payload][crc lo][crc hi]
Wire(body) == body \o PackLE(calculate_crc[body])

\* a master's read request: start address and count, big-endian
ReadRequest(slave_id, function_code, start, count) ==
    Wire(<< slave_id, function_code >> \o PackBE(start) \o PackBE(count))

RECURSIVE WordsBE(_)
WordsBE(values) ==
    IF values = << >> THEN << >>
    ELSE PackBE(Head(values)) \o WordsBE(Tail(values))

\* a slave's Read Holding Registers reply: byte count, then the words
RegistersReply(slave_id, values) ==
    Wire(<< slave_id, 3, 2 * Len(values) >> \o WordsBE(values))

\* a slave's Read Coils reply: byte count, then the bitmap bytes
CoilsReply(slave_id, bitmap) ==
    Wire(<< slave_id, 1, Len(bitmap) >> \o bitmap)

SlaveIds == {3, 5}

\* the bitmaps of the coil replies
Bitmaps == { << 1, 128, 0, 255, 170, 129 >>, << 1 >> }

\* the value lists of the register replies
ValueLists ==
    { << 0, 0, 235, 612 >>, << 65535, 32768, 32767 >>,
      << 7, 8, 32767, 1000, 9 >> }

\* the frames seen for slave 3: every request pattern of _handle_frame, a
\* request outside them, register replies of 4 and of 3 words, coil replies
\* of 48 and of 8 coils, and the echo of a setpoint write
FramesOf3 ==
    { ReadRequest(3, 1, COIL_START_ADDRESS, COIL_COUNT),
      ReadRequest(3, 3, REGISTER_START_ADDRESS, REGISTER_MONITOR_COUNT),
      ReadRequest(3, 3, REGISTER_START_ADDRESS_2, REGISTER_MONITOR_COUNT_2),
      ReadRequest(3, 3, REGISTER_START_ADDRESS_3, REGISTER_MONITOR_COUNT_3),
      ReadRequest(3, 3, TEMP_HUMIDITY_REGISTER, REGISTER_COUNT),
      ReadRequest(3, 3, 0, 2),
      RegistersReply(3, << 0, 0, 235, 612 >>),
      RegistersReply(3, << 65535, 32768, 32767 >>),
      CoilsReply(3, << 1, 128, 0, 255, 170, 129 >>),
      CoilsReply(3, << 1 >>),
      build_write_register_frame(3, SETPOINT_REGISTER, 215) }

\* the frames seen for slave 5
FramesOf5 ==
    { ReadRequest(5, 3, TEMP_HUMIDITY_REGISTER, REGISTER_COUNT),
      RegistersReply(5, << 7, 8, 32767, 1000, 9 >>) }

\* what one read(1024) may return in the hub specification: one whole frame
Chunks == FramesOf3 \cup FramesOf5

(***************************************************************************)
(* Bounds                                                                  *)
(***************************************************************************)
MaxReads == 3

\* the instants, in seconds after the start, at which something happens
Instants == {0, 5, 300, 301}

(***************************************************************************)
(* ModbusRTUMonitorHub._connect                                            *)
(***************************************************************************)
\* the old writer is closed, both are set to None, then open_connection either
\* succeeds (ok) or raises and leaves them None
_connect(ok) ==
    /\ reader' = IF ok THEN Some("open") ELSE None
    /\ writer' = IF ok THEN Some("open") ELSE None

(***************************************************************************)
(* ModbusRTUMonitorHub._monitor_loop: one pass of "while True"             *)
(***************************************************************************)
\* "buffer.clear()"
BufferClear ==
    /\ buffer' = << >>
    /\ cleared' = Len(buffer)

\* a task that no cancel() stops
NeverCancelled == TRUE

\* async_close has not cancelled the monitor task
MonitorRunning == close_pc = "running"

\* async_close has not cancelled the availability task
SweepRunning == close_pc \in {"running", "monitor_cancelled"}

\* "continue": back to the top of "while True", no read since the reconnect
Continue == reconnected' = TRUE

\* "if self._reader is None: await self._connect(); buffer.clear(); continue"
MonitorConnect(ok) ==
    /\ MonitorRunning
    /\ reader = None
    /\ _connect(ok)
    /\ BufferClear
    /\ Continue
    /\ UNCHANGED << hubVars, clockVars, reads, handled, writeVars, climateVars, streamVars, close_pc >>

\* read() returned data: extend the buffer and run the inner loop
MonitorBatch(data) ==
    \E r \in { ProcessBatch(buffer, data, CurrentHub, now) } :
        /\ buffer' = r.buffer
        /\ SetHub(r.hub)
        /\ handled' = r.emitted
        /\ UNCHANGED << connVars, clockVars, cleared, writeVars, climateVars >>
        /\ reconnected' = FALSE

MonitorRead(data) ==
    /\ MonitorRunning
    /\ reader # None
    /\ reads < MaxReads
    /\ reads' = reads + 1
    /\ MonitorBatch(data)
    /\ UNCHANGED << streamVars, close_pc >>

\* a listener's error that ends the monitor task
MonitorReadFatal(data) ==
    /\ MonitorRunning
    /\ reader # None
    /\ reads < MaxReads
    /\ reads' = reads + 1
    /\ \E r \in { ProcessBatch(buffer, data,
                                [CurrentHub EXCEPT !.listener_ok = FALSE], now) } :
          /\ r.hub.raised
          /\ buffer' = r.buffer
          /\ SetHub(r.hub)
          /\ handled' = r.emitted
    /\ reconnected' = FALSE
    /\ close_pc' = "monitor_cancelled"
    /\ UNCHANGED << connVars, clockVars, cleared, writeVars, climateVars, streamVars >>

\* read() returned data and a listener raises while a frame of the batch is
\* handled: "except Exception as ex: log; await asyncio.sleep(5)"
MonitorReadRaise(data) ==
    /\ MonitorRunning
    /\ reader # None
    /\ reads < MaxReads
    /\ reads' = reads + 1
    /\ \E r \in { ProcessBatch(buffer, data,
                                [CurrentHub EXCEPT !.listener_ok = FALSE], now) } :
          /\ r.hub.raised
          /\ buffer' = r.buffer
          /\ SetHub(r.hub)
          /\ handled' = r.emitted
    /\ reconnected' = FALSE
    /\ UNCHANGED << connVars, clockVars, cleared, writeVars, climateVars, streamVars,
                    close_pc >>

\* "if not data": connection closed by the gateway
MonitorEOF(ok) ==
    /\ MonitorRunning
    /\ reader # None
    /\ _connect(ok)
    /\ BufferClear
    /\ Continue
    /\ UNCHANGED << hubVars, clockVars, reads, handled, writeVars, climateVars, streamVars, close_pc >>

\* a timeout path that reconnects and keeps the buffer
MonitorTimeoutKeep(ok) ==
    /\ reader # None
    /\ _connect(ok)
    /\ Continue
    /\ UNCHANGED << buffer, cleared, hubVars, clockVars, reads, handled,
                    writeVars, climateVars, streamVars, close_pc >>

\* "except asyncio.TimeoutError": no data for 30 seconds
MonitorTimeout(ok) ==
    /\ MonitorRunning
    /\ reader # None
    /\ _connect(ok)
    /\ BufferClear
    /\ Continue
    /\ UNCHANGED << hubVars, clockVars, reads, handled, writeVars, climateVars, streamVars, close_pc >>

\* an error path that reconnects and marks every slave unavailable
MonitorErrorMarks(ok) ==
    /\ MonitorRunning
    /\ reader # None
    /\ _connect(ok)
    /\ BufferClear
    /\ Continue
    /\ discovered_slaves' =
           [s \in DOMAIN discovered_slaves |->
               [discovered_slaves[s] EXCEPT !.available = FALSE]]
    /\ UNCHANGED << pending_requests, last_coordinator_update, updates,
                    unreported, surfaced, clockVars, reads, handled,
                    writeVars, climateVars, streamVars, close_pc >>

\* "except (AttributeError, OSError, ConnectionError)"
MonitorError(ok) ==
    /\ MonitorRunning
    /\ reader # None
    /\ _connect(ok)
    /\ BufferClear
    /\ Continue
    /\ UNCHANGED << hubVars, clockVars, reads, handled, writeVars, climateVars, streamVars, close_pc >>

(***************************************************************************)
(* ModbusRTUMonitorHub._check_slave_availability                           *)
(***************************************************************************)
\* a sweep that finds no slave stale
NeverStale(slave_data, t) == FALSE

Stale(slave_data, t) ==
    (t - slave_data.last_seen) > AVAILABILITY_TIMEOUT /\ slave_data.available

\* a sweep that forgets the slaves it finds stale
SweepDrop(slaves, t) ==
    [s \in { x \in DOMAIN slaves : ~Stale(slaves[x], t) } |-> slaves[s]]

\* a sweep that recomputes every flag from the age of last_seen
SweepRevive(slaves, t) ==
    [s \in DOMAIN slaves |->
        [slaves[s] EXCEPT !.available =
            (t - slaves[s].last_seen) <= AVAILABILITY_TIMEOUT]]

SweepSlaves(slaves, t) ==
    [s \in DOMAIN slaves |->
        IF Stale(slaves[s], t) THEN [slaves[s] EXCEPT !.available = FALSE]
        ELSE slaves[s]]

\* a sweep that also forgets the pending entries older than the timeout
SweepExpires(h, t) ==
    [h EXCEPT !.slaves = SweepSlaves(@, t),
              !.pending = [key \in { k \in DOMAIN h.pending :
                                        t - h.pending[k].timestamp
                                            <= AVAILABILITY_TIMEOUT }
                              |-> h.pending[key]]]

_check_slave_availability(h, t) ==
    LET updated == \E s \in DOMAIN h.slaves : Stale(h.slaves[s], t)
        h1 == [h EXCEPT !.slaves = SweepSlaves(@, t)]
    IN  IF updated THEN _update_coordinator_throttled(h1, t) ELSE h1

\* one pass of _availability_check_loop after its sleep(15)
Sweep ==
    /\ SweepRunning
    /\ SetHub(_check_slave_availability(CurrentHub, now))
    /\ UNCHANGED << connVars, buffer, clockVars, reads, handled, cleared, reconnected,
                    writeVars, climateVars, streamVars, close_pc >>

(***************************************************************************)
(* The clock                                                               *)
(***************************************************************************)
\* time passes, to a later instant
Tick(t) ==
    /\ t > now
    /\ now' = t
    /\ UNCHANGED << connVars, buffer, hubVars, reads, handled, cleared, reconnected,
                    writeVars, climateVars, streamVars, close_pc >>

(***************************************************************************)
(* ModbusRTUMonitorHub.async_write_setpoint                                *)
(***************************************************************************)
\* the tasks that may call async_write_setpoint at the same time
Callers == {"a", "b"}

\* the slave ids written to
WriteSlaves == {5}

\* the temperatures written, in hundredths of a degree: 21.5, 21.57, -0.09
\* and 6553.6
Temperatures == {2150, 2157, -9, 655360}

MaxWrites == 2

\* "self._attr_target_temperature = 20.0", in hundredths of a degree
DefaultTarget == 2000

\* a caller that has not called yet
NoCall == [pc |-> "idle", slave_id |-> 0, temperature |-> 0, result |-> "none"]

\* "not self._writer or self._writer.is_closing()"
NoLiveWriter == writer = None \/ writer = Some("closing")

\* "int(temperature * 10)": int() truncates toward zero
ScaledValue(temperature) ==
    IF temperature >= 0 THEN temperature \div 10
    ELSE 0 - ((0 - temperature) \div 10)

\* "if not 0 <= value <= 65535: raise"
ValueInRange(value) == 0 <= value /\ value <= 65535

\* a lock that is always granted
AcquireAnyway(c) == TRUE

\* the lock of "async with self._write_lock" can be taken
CanAcquire(c) == write_lock = None

\* the call of c ends: it returns ("ok") or raises HomeAssistantError
WriteEnd(c, result) ==
    calls' = [calls EXCEPT ![c] = [NoCall EXCEPT !.result = result]]

\* async_write_setpoint(slave_id, temperature) is called and waits for the lock
WriteCall(c, slave_id, temperature) ==
    /\ calls[c].pc = "idle"
    /\ writes < MaxWrites
    /\ writes' = writes + 1
    /\ calls' = [calls EXCEPT ![c] = [pc |-> "waiting", slave_id |-> slave_id,
                                      temperature |-> temperature,
                                      result |-> "none"]]
    /\ UNCHANGED << connVars, buffer, hubVars, clockVars, reads, handled,
                    cleared, reconnected, write_lock, transport, streamVars, close_pc,
                    climateVars >>

\* the call takes the lock and runs to "await self._writer.drain()", or to
\* a raise, which leaves the "async with" and releases the lock;
\* writer.write(frame) either takes the frame (write_ok) or raises
WriteAcquire(c, write_ok) ==
    /\ calls[c].pc = "waiting"
    /\ CanAcquire(c)
    /\ IF \/ NoLiveWriter
          \/ ~ValueInRange(ScaledValue(calls[c].temperature))
          \/ ~write_ok
       THEN /\ WriteEnd(c, "failed")
            /\ UNCHANGED << write_lock, transport >>
       ELSE /\ transport' = transport \o
                    build_write_register_frame(
                        calls[c].slave_id, SETPOINT_REGISTER,
                        ScaledValue(calls[c].temperature))
            /\ write_lock' = Some(c)
            /\ calls' = [calls EXCEPT ![c].pc = "draining"]
    /\ UNCHANGED << connVars, buffer, hubVars, clockVars, reads, handled,
                    cleared, reconnected, writes, streamVars, close_pc,
                    climateVars >>

\* drain() returns (ok) or raises OSError; the lock is released
WriteDrain(c, ok) ==
    /\ calls[c].pc = "draining"
    /\ WriteEnd(c, IF ok THEN "ok" ELSE "failed")
    /\ write_lock' = None
    /\ UNCHANGED << connVars, buffer, hubVars, clockVars, reads, handled,
                    cleared, reconnected, transport, writes, streamVars, close_pc,
                    climateVars >>

\* the connection drops: the writer's transport is closing from now on
TransportLost ==
    /\ writer = Some("open")
    /\ writer' = Some("closing")
    /\ UNCHANGED << reader, buffer, hubVars, clockVars, reads, handled,
                    cleared, reconnected, writeVars, climateVars, streamVars, close_pc >>

(***************************************************************************)
(* ModbusRTUMonitorClimate: the climate entity of a slave.  The platform   *)
(* adds the entity of a slave once a coordinator update has carried the    *)
(* slave; coordinator.data is the hub's discovered_slaves dict itself.     *)
(***************************************************************************)
\* "self._attr_target_temperature = temperature"
SetTarget(slave_id, temperature) ==
    [_attr_target_temperature EXCEPT ![slave_id] = temperature]

\* async_set_temperature(temperature=...) up to its await: the cache is set
\* and hub.async_write_setpoint is called; a failure of that call is raised
\* again as HomeAssistantError and nothing else is done
ClimateSetTemperature(c, slave_id, temperature) ==
    /\ slave_id \in surfaced
    /\ calls[c].pc = "idle"
    /\ writes < MaxWrites
    /\ writes' = writes + 1
    /\ target_before' =
           [target_before EXCEPT ![c] = _attr_target_temperature[slave_id]]
    /\ _attr_target_temperature' = SetTarget(slave_id, temperature)
    /\ calls' = [calls EXCEPT ![c] = [pc |-> "waiting", slave_id |-> slave_id,
                                      temperature |-> temperature,
                                      result |-> "none"]]
    /\ UNCHANGED << connVars, buffer, hubVars, clockVars, reads, handled,
                    cleared, reconnected, write_lock, transport, streamVars,
                    close_pc >>

\* the target_temperature property: with register 144 of the slave in the
\* store the cache is set to a tenth of it
ClimateTargetTemperature(slave_id) ==
    /\ slave_id \in surfaced
    /\ slave_id \in DOMAIN discovered_slaves
    /\ discovered_slaves[slave_id].registers # None
    /\ SETPOINT_REGISTER \in DOMAIN Get(discovered_slaves[slave_id].registers)
    /\ _attr_target_temperature' =
           [_attr_target_temperature EXCEPT ![slave_id] =
               10 * Get(discovered_slaves[slave_id].registers)[SETPOINT_REGISTER]]
    /\ UNCHANGED << connVars, buffer, hubVars, clockVars, reads, handled,
                    cleared, reconnected, writeVars, target_before,
                    streamVars, close_pc >>

(***************************************************************************)
(* ModbusRTUMonitorHub.async_close                                         *)
(***************************************************************************)
\* "self._monitor_task.cancel(); await self._monitor_task"
CloseMonitor ==
    /\ close_pc = "running"
    /\ close_pc' = "monitor_cancelled"
    /\ UNCHANGED << connVars, buffer, hubVars, clockVars, reads, handled,
                    cleared, reconnected, writeVars, climateVars, streamVars >>

\* "self._availability_task.cancel(); await self._availability_task"
CloseSweep ==
    /\ close_pc = "monitor_cancelled"
    /\ close_pc' = "sweep_cancelled"
    /\ UNCHANGED << connVars, buffer, hubVars, clockVars, reads, handled,
                    cleared, reconnected, writeVars, climateVars, streamVars >>

\* "if self._writer: self._writer.close(); await self._writer.wait_closed()"
CloseWriter ==
    /\ close_pc = "sweep_cancelled"
    /\ close_pc' = "closed"
    /\ writer' = IF writer # None THEN Some("closing") ELSE None
    /\ UNCHANGED << reader, buffer, hubVars, clockVars, reads, handled,
                    cleared, reconnected, writeVars, climateVars, streamVars >>

(***************************************************************************)
(* The hub specification                                                   *)
(***************************************************************************)
\* the state after __init__ and async_setup
Init ==
    /\ reader = None
    /\ writer = None
    /\ buffer = << >>
    /\ discovered_slaves = EmptyDict
    /\ pending_requests = EmptyDict
    /\ now = 0
    /\ last_coordinator_update = 0 - COORDINATOR_UPDATE_INTERVAL
    /\ updates = 0
    /\ unreported = FALSE
    /\ surfaced = {}
    /\ reads = 0
    /\ handled = << >>
    /\ cleared = 0
    /\ reconnected = FALSE
    /\ close_pc = "running"
    /\ write_lock = None
    /\ calls = [c \in Callers |-> NoCall]
    /\ transport = << >>
    /\ writes = 0
    /\ _attr_target_temperature = [s \in WriteSlaves |-> DefaultTarget]
    /\ target_before = [c \in Callers |-> DefaultTarget]
    /\ stream = << >>
    /\ pos = 0
    /\ emitted = << >>
    /\ window = << >>
    /\ returned = << >>

Next ==
    \/ \E ok \in BOOLEAN : MonitorConnect(ok)
    \/ \E data \in Chunks : MonitorRead(data)
    \/ \E ok \in BOOLEAN : MonitorEOF(ok)
    \/ \E ok \in BOOLEAN : MonitorTimeout(ok)
    \/ \E ok \in BOOLEAN : MonitorError(ok)
    \/ Sweep
    \/ \E t \in Instants : Tick(t)

Spec == Init /\ [][Next]_vars

\* the hub with its scheduling: time passes, the availability task runs its
\* sweep after every sleep, and the monitor task reconnects when it has no
\* reader; whether frames arrive is up to the bus
SpecFair ==
    /\ Spec
    /\ WF_vars(\E t \in Instants : Tick(t))
    /\ WF_vars(Sweep)
    /\ WF_vars(\E ok \in BOOLEAN : MonitorConnect(ok))

(***************************************************************************)
(* The write specification: the hub with callers of async_write_setpoint   *)
(* and less traffic on the bus                                             *)
(***************************************************************************)
\* what one read(1024) may return here: the coils request of slave 3, its
\* reply, and the echo of a setpoint write to slave 5
WriteChunks ==
    { ReadRequest(3, 1, COIL_START_ADDRESS, COIL_COUNT),
      CoilsReply(3, << 1 >>),
      build_write_register_frame(5, SETPOINT_REGISTER, 215) }

\* the one later instant here: the availability timeout has passed
WriteInstants == {AVAILABILITY_TIMEOUT + 1}

NextWrite ==
    \/ \E ok \in BOOLEAN : MonitorConnect(ok)
    \/ \E data \in WriteChunks : MonitorRead(data)
    \/ \E ok \in BOOLEAN : MonitorEOF(ok)
    \/ \E ok \in BOOLEAN : MonitorTimeout(ok)
    \/ \E ok \in BOOLEAN : MonitorError(ok)
    \/ Sweep
    \/ \E t \in WriteInstants : Tick(t)
    \/ TransportLost
    \/ \E c \in Callers, slave_id \in WriteSlaves, temperature \in Temperatures :
          WriteCall(c, slave_id, temperature)
    \/ \E c \in Callers, write_ok \in BOOLEAN : WriteAcquire(c, write_ok)
    \/ \E c \in Callers, ok \in BOOLEAN : WriteDrain(c, ok)

SpecWrite == Init /\ [][NextWrite]_vars

(***************************************************************************)
(* The teardown specification: the hub with callers of                     *)
(* async_write_setpoint and a call of async_close                          *)
(***************************************************************************)
\* the temperature written here: 21.5
CloseTemperatures == {2150}

NextClose ==
    \/ \E ok \in BOOLEAN : MonitorConnect(ok)
    \/ \E data \in WriteChunks : MonitorRead(data)
    \/ \E ok \in BOOLEAN : MonitorEOF(ok)
    \/ Sweep
    \/ \E t \in WriteInstants : Tick(t)
    \/ \E c \in Callers, slave_id \in WriteSlaves,
          temperature \in CloseTemperatures :
          WriteCall(c, slave_id, temperature)
    \/ \E c \in Callers, write_ok \in BOOLEAN : WriteAcquire(c, write_ok)
    \/ \E c \in Callers, ok \in BOOLEAN : WriteDrain(c, ok)
    \/ CloseMonitor
    \/ CloseSweep
    \/ CloseWriter

SpecClose == Init /\ [][NextClose]_vars

(***************************************************************************)
(* The echo specification: the gateway forwards the frames of a setpoint   *)
(* write to slave 5 among the polling of slave 5                           *)
(***************************************************************************)
\* the Write Single Register frame of a setpoint of 21.5 for slave 5; the
\* slave's reply has the same bytes
Echo == build_write_register_frame(5, SETPOINT_REGISTER, 215)

\* the frames that may follow it
EchoFollowers ==
    { ReadRequest(5, 3, TEMP_HUMIDITY_REGISTER, REGISTER_COUNT),
      ReadRequest(5, 1, COIL_START_ADDRESS, COIL_COUNT),
      CoilsReply(5, << 1 >>),
      RegistersReply(5, << 7, 8, 215, 450 >>) }

\* what one read(1024) may return here
EchoChunks == EchoFollowers \cup {Echo} \cup { Echo \o f : f \in EchoFollowers }

EchoInstants == {COORDINATOR_UPDATE_INTERVAL}

NextEcho ==
    \/ \E ok \in BOOLEAN : MonitorConnect(ok)
    \/ \E data \in EchoChunks : MonitorRead(data)
    \/ \E t \in EchoInstants : Tick(t)

SpecEcho == Init /\ [][NextEcho]_vars

(***************************************************************************)
(* The reconnect specification: read(1024) may return a frame whole or in  *)
(* two pieces, so that a reconnect can find bytes waiting in the buffer    *)
(***************************************************************************)
ReconnectFrames ==
    { ReadRequest(3, 1, COIL_START_ADDRESS, COIL_COUNT),
      CoilsReply(3, << 1 >>),
      ReadRequest(5, 1, COIL_START_ADDRESS, COIL_COUNT) }

\* the first bytes of a frame, and the rest of it: the inner loop leaves up
\* to 3 bytes in the buffer ("while len(buffer) >= 4")
HeadLen == 3

ReconnectChunks ==
    ReconnectFrames
    \cup { SubSeq(f, 1, HeadLen) : f \in ReconnectFrames }
    \cup { SubSeq(f, HeadLen + 1, Len(f)) : f \in ReconnectFrames }

NextReconnect ==
    \/ \E ok \in BOOLEAN : MonitorConnect(ok)
    \/ \E data \in ReconnectChunks : MonitorRead(data)
    \/ \E ok \in BOOLEAN : MonitorEOF(ok)
    \/ \E ok \in BOOLEAN : MonitorTimeout(ok)
    \/ \E ok \in BOOLEAN : MonitorError(ok)
    \/ Sweep
    \/ \E t \in WriteInstants : Tick(t)

SpecReconnect == Init /\ [][NextReconnect]_vars

(***************************************************************************)
(* The recovery specification: the reconnect specification with listeners  *)
(* that may raise, a gateway that in the end accepts a connection and      *)
(* sends whole frames                                                      *)
(***************************************************************************)
NextRecover ==
    \/ NextReconnect
    \/ \E data \in ReconnectChunks : MonitorReadRaise(data)

SpecRecover ==
    /\ Init /\ [][NextRecover]_vars
    /\ WF_vars(MonitorConnect(TRUE))
    /\ SF_vars(\E data \in ReconnectFrames : MonitorRead(data))

(***************************************************************************)
(* The decoder specification: decode_frame is given one window of bytes    *)
(***************************************************************************)
\* the longest body (the bytes before the CRC) tried
MaxBody == 6

\* the bytes the bodies are made of
BodyBytes == {1, 2, 3}

RECURSIVE SeqsUpTo(_, _)
SeqsUpTo(S, n) ==
    IF n = 0 THEN { << >> }
    ELSE LET shorter == SeqsUpTo(S, n - 1)
         IN  shorter \cup { Append(b, x) : b \in shorter, x \in S }

Bodies ==
    SeqsUpTo(BodyBytes, MaxBody)
    \cup { << 5, 6, 0, 144, 0, 215 >>, << 5, 6, 0, 144, 0, 0 >>,
           << 3, 4, 2, 0, 7 >>, << 3, 1, 1, 255 >> }

\* the windows: a body alone, with its CRC low byte first, with its CRC high
\* byte first
Windows ==
    Bodies
    \cup { b \o PackLE(calculate_crc[b]) : b \in Bodies }
    \cup { b \o PackBE(calculate_crc[b]) : b \in Bodies }

InitDecode ==
    /\ reader = None
    /\ writer = None
    /\ buffer = << >>
    /\ discovered_slaves = EmptyDict
    /\ pending_requests = EmptyDict
    /\ now = 0
    /\ last_coordinator_update = 0 - COORDINATOR_UPDATE_INTERVAL
    /\ updates = 0
    /\ unreported = FALSE
    /\ surfaced = {}
    /\ reads = 0
    /\ handled = << >>
    /\ cleared = 0
    /\ reconnected = FALSE
    /\ close_pc = "running"
    /\ write_lock = None
    /\ calls = [c \in Callers |-> NoCall]
    /\ transport = << >>
    /\ writes = 0
    /\ _attr_target_temperature = [s \in WriteSlaves |-> DefaultTarget]
    /\ target_before = [c \in Callers |-> DefaultTarget]
    /\ stream = << >>
    /\ pos = 0
    /\ emitted = << >>
    /\ window \in Windows
    /\ returned = << >>

\* "decoded = self._decoder.decode_frame(potential_frame)"
Decode ==
    /\ returned = << >>
    /\ returned' = << decode_frame[window] >>
    /\ UNCHANGED << connVars, buffer, hubVars, clockVars, reads, handled,
                    cleared, reconnected, writeVars, climateVars, close_pc, stream, pos,
                    emitted, window >>

NextDecode == Decode

SpecDecode == InitDecode /\ [][NextDecode]_vars

(***************************************************************************)
(* The re-framer specification: the gateway sends one byte stream over one *)
(* connection, and read(1024) returns it in batches of any sizes.          *)
(***************************************************************************)
\* the size asked of read()
READ_SIZE == 1024

\* bitmap bytes of the coil replies
CoilBytes == {0, 1, 128, 170}

\* coil replies of one and of two bitmap bytes
CoilStreams ==
    { CoilsReply(3, << a >>) : a \in CoilBytes }
    \cup { CoilsReply(3, << a, b >>) : a, b \in CoilBytes }

\* exchanges on the bus: a request and its reply, line noise before a frame,
\* a repeated request whose replies follow, the echo of a setpoint write
ExchangeStreams ==
    { ReadRequest(3, 3, TEMP_HUMIDITY_REGISTER, REGISTER_COUNT),
      ReadRequest(3, 3, TEMP_HUMIDITY_REGISTER, REGISTER_COUNT)
          \o RegistersReply(3, << 0, 0, 235, 612 >>),
      << 9, 9 >> \o ReadRequest(5, 3, TEMP_HUMIDITY_REGISTER, REGISTER_COUNT),
      ReadRequest(3, 1, COIL_START_ADDRESS, COIL_COUNT)
          \o CoilsReply(3, << 1, 128, 0, 255, 170, 129 >>),
      ReadRequest(3, 3, REGISTER_START_ADDRESS_2, REGISTER_MONITOR_COUNT_2)
          \o ReadRequest(3, 3, REGISTER_START_ADDRESS, REGISTER_MONITOR_COUNT)
          \o ReadRequest(3, 3, REGISTER_START_ADDRESS, REGISTER_MONITOR_COUNT)
          \o RegistersReply(3, << 65535 >>)
          \o RegistersReply(3, << 7 >>),
      build_write_register_frame(5, SETPOINT_REGISTER, 215)
          \o ReadRequest(5, 3, TEMP_HUMIDITY_REGISTER, REGISTER_COUNT) }

Streams == CoilStreams \cup ExchangeStreams

\* the hub is connected and has seen nothing; a stream is about to arrive
InitStream ==
    /\ reader = Some("open")
    /\ writer = Some("open")
    /\ buffer = << >>
    /\ discovered_slaves = EmptyDict
    /\ pending_requests = EmptyDict
    /\ now = 0
    /\ last_coordinator_update = 0 - COORDINATOR_UPDATE_INTERVAL
    /\ updates = 0
    /\ unreported = FALSE
    /\ surfaced = {}
    /\ reads = 0
    /\ handled = << >>
    /\ cleared = 0
    /\ reconnected = FALSE
    /\ close_pc = "running"
    /\ write_lock = None
    /\ calls = [c \in Callers |-> NoCall]
    /\ transport = << >>
    /\ writes = 0
    /\ _attr_target_temperature = [s \in WriteSlaves |-> DefaultTarget]
    /\ target_before = [c \in Callers |-> DefaultTarget]
    /\ stream \in Streams
    /\ pos = 0
    /\ emitted = << >>
    /\ window = << >>
    /\ returned = << >>

\* read(1024) returns the next n bytes of the stream
StreamRead(n) ==
    /\ MonitorRunning
    /\ reader # None
    /\ n <= READ_SIZE
    /\ pos + n <= Len(stream)
    /\ MonitorBatch(SubSeq(stream, pos + 1, pos + n))
    /\ pos' = pos + n
    /\ emitted' = emitted \o handled'
    /\ UNCHANGED << stream, reads, close_pc, decodeVars >>

NextStream == \E n \in 1..Len(stream) : StreamRead(n)

SpecStream == InitStream /\ [][NextStream]_vars

(***************************************************************************)
(* The register-range specification: the master polls the three register   *)
(* ranges of slave 3, and the replies carry as many words as were asked    *)
(* for, or one more                                                        *)
(***************************************************************************)
\* the words 1, 2, ..., n
Ramp(n) == [i \in 1..n |-> i]

RangeChunks ==
    { ReadRequest(3, 3, REGISTER_START_ADDRESS, REGISTER_MONITOR_COUNT),
      ReadRequest(3, 3, REGISTER_START_ADDRESS_2, REGISTER_MONITOR_COUNT_2),
      ReadRequest(3, 3, REGISTER_START_ADDRESS_3, REGISTER_MONITOR_COUNT_3),
      RegistersReply(3, Ramp(REGISTER_MONITOR_COUNT)),
      RegistersReply(3, Ramp(REGISTER_MONITOR_COUNT_2)),
      RegistersReply(3, Ramp(REGISTER_MONITOR_COUNT_2 + 1)),
      RegistersReply(3, Ramp(REGISTER_MONITOR_COUNT_3)) }

NextRanges ==
    \/ \E ok \in BOOLEAN : MonitorConnect(ok)
    \/ \E data \in RangeChunks : MonitorRead(data)

SpecRanges == Init /\ [][NextRanges]_vars

(***************************************************************************)
(* The climate specification: slave 5 is discovered and polled for the     *)
(* range that holds its setpoint, and its climate entity is asked to set   *)
(* the temperature                                                         *)
(***************************************************************************)
ClimateChunks ==
    { ReadRequest(5, 3, TEMP_HUMIDITY_REGISTER, REGISTER_COUNT),
      ReadRequest(5, 3, REGISTER_START_ADDRESS_3, REGISTER_MONITOR_COUNT_3),
      RegistersReply(5, Ramp(REGISTER_MONITOR_COUNT_3)) }

\* the caller of the entity's service
ClimateCallers == {"a"}

NextClimate ==
    \/ \E ok \in BOOLEAN : MonitorConnect(ok)
    \/ \E data \in ClimateChunks : MonitorRead(data)
    \/ \E ok \in BOOLEAN : MonitorEOF(ok)
    \/ \E c \in ClimateCallers, slave_id \in WriteSlaves,
          temperature \in Temperatures :
          ClimateSetTemperature(c, slave_id, temperature)
    \/ \E c \in ClimateCallers, write_ok \in BOOLEAN : WriteAcquire(c, write_ok)
    \/ \E c \in ClimateCallers, ok \in BOOLEAN : WriteDrain(c, ok)
    \/ \E slave_id \in WriteSlaves : ClimateTargetTemperature(slave_id)

SpecClimate == Init /\ [][NextClimate]_vars

(***************************************************************************)
(* The busy-bus specification: the master polls without pause and the      *)
(* gateway forwards the requests back to back, so that read(1024) returns  *)
(* full or partly filled chunks of whole frames.                           *)
(***************************************************************************)
\* n copies of frame, one after the other
RECURSIVE Repeated(_, _)
Repeated(frame, n) ==
    IF n = 0 THEN << >>
    ELSE IF n = 1 THEN frame
    ELSE Repeated(frame, n \div 2) \o Repeated(frame, n - (n \div 2))

\* the requests the master repeats
FloodFrames ==
    { ReadRequest(3, 3, TEMP_HUMIDITY_REGISTER, REGISTER_COUNT),
      ReadRequest(5, 1, COIL_START_ADDRESS, COIL_COUNT) }

\* the chunks a busy bus is observed for
FloodChunks == 5

\* the sizes read(1024) returns: a full chunk, a half and a quarter of one
FloodReads == { READ_SIZE, READ_SIZE \div 2, READ_SIZE \div 4 }

InitFlood ==
    /\ reader = Some("open")
    /\ writer = Some("open")
    /\ buffer = << >>
    /\ discovered_slaves = EmptyDict
    /\ pending_requests = EmptyDict
    /\ now = 0
    /\ last_coordinator_update = 0 - COORDINATOR_UPDATE_INTERVAL
    /\ updates = 0
    /\ unreported = FALSE
    /\ surfaced = {}
    /\ reads = 0
    /\ handled = << >>
    /\ cleared = 0
    /\ reconnected = FALSE
    /\ close_pc = "running"
    /\ write_lock = None
    /\ calls = [c \in Callers |-> NoCall]
    /\ transport = << >>
    /\ writes = 0
    /\ _attr_target_temperature = [s \in WriteSlaves |-> DefaultTarget]
    /\ target_before = [c \in Callers |-> DefaultTarget]
    /\ stream \in { Repeated(f, (FloodChunks * READ_SIZE) \div Len(f)) :
                        f \in FloodFrames }
    /\ pos = 0
    /\ emitted = << >>
    /\ window = << >>
    /\ returned = << >>

NextFlood == \E n \in FloodReads : StreamRead(n)

SpecFlood == InitFlood /\ [][NextFlood]_vars

\* the loop goes back to read() after every batch, and read() returns
\* whenever bytes are waiting
SpecFloodFair == SpecFlood /\ WF_vars(NextFlood)

(***************************************************************************)
(* Claims                                                                  *)
(***************************************************************************)
\* the hub before any frame
FreshHub == Hub(EmptyDict, EmptyDict, 0 - COORDINATOR_UPDATE_INTERVAL, 0)

\* the frames the re-framer emits when the whole stream is one batch
OneBatch == ProcessBatch(<< >>, stream, FreshHub, 0).emitted

\* C1: once the whole stream has been delivered, the frames emitted are the
\* same, in the same order, whatever the sizes of the batches were.
C1_BatchIndependence == pos = Len(stream) => emitted = OneBatch

\* frame f is a request for s of the discovery pattern (start 0x83, count 4)
IsDiscoveryRequest(f, s) ==
    /\ f.slave_id = s
    /\ f.is_request
    /\ f.start_address = Some(TEMP_HUMIDITY_REGISTER)
    /\ f.register_count = Some(REGISTER_COUNT)

\* the decimal d is raw / 10
IsTenth(d, raw) ==
    /\ d # None
    /\ Get(d).tenths \in 0..9
    /\ 10 * Get(d).whole + Get(d).tenths = raw

\* C2: from an empty store and an empty pending table (the first batch read
\* was the discovery request for s), the function-3 response for s with at
\* least 4 values v leaves the store with s alone: temperature v[2]/10,
\* humidity v[3]/10 (zero-based), available, and no discovery entry pending.
C2_DiscoveryExchange ==
    [][\A s \in SlaveIds, v \in ValueLists :
          ( /\ Len(v) >= 4
            /\ reads = 1
            /\ Len(handled) = 1
            /\ IsDiscoveryRequest(handled[1], s)
            /\ MonitorRead(RegistersReply(s, v)) )
          => /\ DOMAIN discovered_slaves' = {s}
             /\ IsTenth(discovered_slaves'[s].temperature, v[3])
             /\ IsTenth(discovered_slaves'[s].humidity, v[4])
             /\ discovered_slaves'[s].available
             /\ << s, "" >> \notin DOMAIN pending_requests']_vars

\* slave 3 after its discovery request and the reply [0, 0, 235, 612]:
\* 23.5 degrees, 61.2 percent, available
C2_Witness ==
    /\ reads = 2
    /\ Len(handled) = 1
    /\ handled[1].is_response
    /\ handled[1].values = Some(<< 0, 0, 235, 612 >>)
    /\ DOMAIN discovered_slaves = {3}
    /\ discovered_slaves[3].temperature = Some([whole |-> 23, tenths |-> 5])
    /\ discovered_slaves[3].humidity = Some([whole |-> 61, tenths |-> 2])
    /\ discovered_slaves[3].available
    /\ pending_requests = EmptyDict

\* the three monitored register ranges: pending-key suffix, start, count
Ranges ==
    { [suffix |-> "_registers", start |-> REGISTER_START_ADDRESS,
       count |-> REGISTER_MONITOR_COUNT],
      [suffix |-> "_registers2", start |-> REGISTER_START_ADDRESS_2,
       count |-> REGISTER_MONITOR_COUNT_2],
      [suffix |-> "_registers3", start |-> REGISTER_START_ADDRESS_3,
       count |-> REGISTER_MONITOR_COUNT_3] }

\* frame f is the function-3 request for s of the monitored range rg
IsRangeRequest(f, s, rg) ==
    /\ f.slave_id = s
    /\ f.is_request
    /\ f.function_code = 3
    /\ f.start_address = Some(rg.start)
    /\ f.register_count = Some(rg.count)

\* the signed 16-bit reading of the unsigned wire value r
AsSigned16(r) == IF r <= 32767 THEN r ELSE r - 65536

\* the registers map regs holds the values v from address start on
HoldsAt(regs, start, v) ==
    /\ regs # None
    /\ \A i \in 1..Len(v) :
          /\ (start + i - 1) \in DOMAIN Get(regs)
          /\ Get(regs)[start + i - 1] = AsSigned16(v[i])

\* C3: a function-3 response for s is interpreted against the request for s
\* that immediately precedes it: after a range request its values are stored
\* from that request's start address on, after the discovery request they
\* become temperature and humidity, whatever else is still pending for s.
C3_PrecedingRequest ==
    [][\A s \in SlaveIds, v \in ValueLists :
          ( /\ Len(handled) = 1
            /\ handled[1].slave_id = s
            /\ MonitorRead(RegistersReply(s, v)) )
          => /\ \A rg \in Ranges :
                   IsRangeRequest(handled[1], s, rg)
                   => /\ s \in DOMAIN discovered_slaves'
                      /\ HoldsAt(discovered_slaves'[s].registers, rg.start, v)
             /\ (IsDiscoveryRequest(handled[1], s) /\ Len(v) >= 4)
                => /\ s \in DOMAIN discovered_slaves'
                   /\ IsTenth(discovered_slaves'[s].temperature, v[3])
                   /\ IsTenth(discovered_slaves'[s].humidity, v[4])]_vars

\* C6: a function-3 response with a non-empty value list for s, while a
\* range-N entry is pending for s, stores value i at the entry's recorded
\* start address + i (creating the slave and its map), makes s available,
\* refreshes last_seen and removes the range-N entry.
C6_RangeResponse ==
    [][\A s \in SlaveIds, v \in ValueLists, rg \in Ranges :
          ( /\ Len(v) > 0
            /\ << s, rg.suffix >> \in DOMAIN pending_requests
            /\ MonitorRead(RegistersReply(s, v)) )
          => /\ s \in DOMAIN discovered_slaves'
             /\ HoldsAt(discovered_slaves'[s].registers,
                        Get(pending_requests[<< s, rg.suffix >>].start_address),
                        v)
             /\ discovered_slaves'[s].available
             /\ discovered_slaves'[s].last_seen = now
             /\ << s, rg.suffix >> \notin DOMAIN pending_requests']_vars

\* slave s is available and was last seen more than 300 seconds ago
Overdue(s) ==
    /\ discovered_slaves[s].available
    /\ now - discovered_slaves[s].last_seen > 300

\* C10: an availability sweep makes every available slave last seen more than
\* 300 seconds ago unavailable and then delivers exactly one notification;
\* a slave last seen at most 300 seconds ago keeps its flag.
C10_StalenessSweep ==
    [][Sweep =>
          /\ \A s \in DOMAIN discovered_slaves :
                /\ Overdue(s) => ~discovered_slaves'[s].available
                /\ (now - discovered_slaves[s].last_seen <= 300)
                   => (discovered_slaves'[s].available
                       = discovered_slaves[s].available)
          /\ (\E s \in DOMAIN discovered_slaves : Overdue(s))
             => updates' = updates + 1]_vars

\* the pending-key suffixes a function-3 response can match
RegisterSuffixes == {"_registers", "_registers2", "_registers3", ""}

\* frame f is a response that no pending entry of its slave can match
ResponseMiss(f, pending) ==
    /\ f.is_response
    /\ \/ /\ f.function_code = 1
          /\ << f.slave_id, "_coils" >> \notin DOMAIN pending
       \/ /\ f.function_code = 3
          /\ \A suffix \in RegisterSuffixes :
                << f.slave_id, suffix >> \notin DOMAIN pending

\* frame f is a request of none of the five recognised patterns
RequestMiss(f) ==
    /\ f.is_request
    /\ ~ ( /\ f.function_code = 1
           /\ f.start_address = Some(COIL_START_ADDRESS)
           /\ f.register_count = Some(COIL_COUNT) )
    /\ \A rg \in Ranges : ~IsRangeRequest(f, f.slave_id, rg)
    /\ ~IsDiscoveryRequest(f, f.slave_id)

\* C5: a correlation miss is inert: a response for a slave with no pending
\* entry its function code can match, and a request of none of the five
\* recognised patterns, leave the slave store, the pending table and the
\* notification timestamp as they were, and create no slave.
C5_CorrelationMiss ==
    [][( /\ reads' = reads + 1
         /\ Len(handled') = 1
         /\ \/ ResponseMiss(handled'[1], pending_requests)
            \/ RequestMiss(handled'[1])
         /\ \E data \in Chunks :
               /\ data[1] = handled'[1].slave_id
               /\ data[2] = handled'[1].function_code
               /\ SubSeq(data, 3, Len(data) - 2) = handled'[1].data
               /\ MonitorRead(data) )
       => /\ discovered_slaves' = discovered_slaves
          /\ pending_requests' = pending_requests
          /\ last_coordinator_update' = last_coordinator_update]_vars

\* a register response for slave 3 has just been handled while only its
\* coils request was pending: no slave exists, the coils entry is still there
C5_Witness ==
    /\ reads = 2
    /\ Len(handled) = 1
    /\ handled[1].is_response
    /\ handled[1].function_code = 3
    /\ handled[1].slave_id = 3
    /\ discovered_slaves = EmptyDict
    /\ DOMAIN pending_requests = { << 3, "_coils" >> }

\* the registers map of slave s in the store slaves, None when there is none
RegistersOf(slaves, s) ==
    IF s \in DOMAIN slaves THEN slaves[s].registers ELSE None

\* every stored register value is a signed 16-bit number
RegistersSigned16 ==
    \A s \in DOMAIN discovered_slaves :
        discovered_slaves[s].registers # None
        => \A a \in DOMAIN Get(discovered_slaves[s].registers) :
              Get(discovered_slaves[s].registers)[a] \in -32768..32767

\* C7: every value in a slave's registers map lies in -32768..32767, and a
\* register response that changes the map writes, for each raw unsigned wire
\* value r, r itself when r <= 32767 and r - 65536 otherwise: the values of
\* the response lie in one of the monitored ranges from its start on, and
\* every address that changed holds the conversion of one of them.
C7_SignConversion ==
    /\ []RegistersSigned16
    /\ [][\A s \in SlaveIds, v \in ValueLists :
             ( /\ reads' = reads + 1
               /\ RegistersOf(discovered_slaves', s)
                      # RegistersOf(discovered_slaves, s)
               /\ MonitorRead(RegistersReply(s, v)) )
             => LET old == IF RegistersOf(discovered_slaves, s) = None
                           THEN EmptyDict
                           ELSE Get(RegistersOf(discovered_slaves, s))
                    new == Get(RegistersOf(discovered_slaves', s))
                IN  /\ \E rg \in Ranges :
                          HoldsAt(RegistersOf(discovered_slaves', s),
                                  rg.start, v)
                    /\ \A a \in DOMAIN new :
                          (a \notin DOMAIN old \/ old[a] # new[a])
                          => \E i \in 1..Len(v) :
                                new[a] = AsSigned16(v[i])]_vars

\* slave 3 after the range-1 request and the reply [65535, 32768, 32767]:
\* registers 165, 166, 167 hold -1, -32768, 32767
C7_Witness ==
    /\ Len(handled) = 1
    /\ handled[1].values = Some(<< 65535, 32768, 32767 >>)
    /\ 3 \in DOMAIN discovered_slaves
    /\ discovered_slaves[3].registers
           = Some((165 :> -1) @@ (166 :> -32768) @@ (167 :> 32767))

\* the first n entries of the list l, all of it when it is shorter
FirstN(l, n) == [k \in 1..(IF Len(l) < n THEN Len(l) ELSE n) |-> l[k]]

\* no slave has more than 40 coils
CoilsBounded ==
    \A s \in DOMAIN discovered_slaves :
        discovered_slaves[s].coils # None
        => Len(Get(discovered_slaves[s].coils)) <= 40

\* C8: a function-1 response with a non-empty coil list for s, while a coils
\* entry is pending for s, makes s's coils the first 40 entries of the decoded
\* list, makes s available, refreshes last_seen and removes the entry; and
\* no slave ever has more than 40 coils.
C8_CoilsResponse ==
    /\ []CoilsBounded
    /\ [][\A s \in SlaveIds, bitmap \in Bitmaps :
             ( /\ << s, "_coils" >> \in DOMAIN pending_requests
               /\ Len(handled') = 1
               /\ handled'[1].coil_values # None
               /\ Len(Get(handled'[1].coil_values)) > 0
               /\ MonitorRead(CoilsReply(s, bitmap)) )
             => /\ s \in DOMAIN discovered_slaves'
                /\ discovered_slaves'[s].coils
                       = Some(FirstN(Get(handled'[1].coil_values), 40))
                /\ discovered_slaves'[s].available
                /\ discovered_slaves'[s].last_seen = now
                /\ << s, "_coils" >> \notin DOMAIN pending_requests']_vars

\* slave 3 after its coils request and a reply of 48 coils: 40 are kept
C8_Witness ==
    /\ Len(handled) = 1
    /\ handled[1].function_code = 1
    /\ handled[1].is_response
    /\ Len(Get(handled[1].coil_values)) = 48
    /\ 3 \in DOMAIN discovered_slaves
    /\ discovered_slaves[3].coils
           = Some(SubSeq(Get(handled[1].coil_values), 1, 40))
    /\ discovered_slaves[3].available
    /\ << 3, "_coils" >> \notin DOMAIN pending_requests

\* the hub after the first k frames handed to _handle_frame, in a behaviour
\* of the re-framer specification (the clock stands still there)
ReplayHub(k) ==
    LET replay[j \in Nat] ==
            IF j = 0 THEN FreshHub
            ELSE LetVal(replay[j - 1],
                        LAMBDA h : _handle_frame(h, emitted[j], now))
    IN  replay[k]

\* frame f is the coils request for s
IsCoilsRequest(f, s) ==
    /\ f.slave_id = s
    /\ f.is_request
    /\ f.function_code = 1
    /\ f.start_address = Some(COIL_START_ADDRESS)
    /\ f.register_count = Some(COIL_COUNT)

\* frames f and g are two requests of the same kind for s
SameKindRequests(f, g, s) ==
    \/ IsCoilsRequest(f, s) /\ IsCoilsRequest(g, s)
    \/ \E rg \in Ranges : IsRangeRequest(f, s, rg) /\ IsRangeRequest(g, s, rg)
    \/ IsDiscoveryRequest(f, s) /\ IsDiscoveryRequest(g, s)

\* frame g is a response for s that answers a request of the kind of f
Answers(g, f, s) ==
    /\ g.slave_id = s
    /\ g.is_response
    /\ \/ IsCoilsRequest(f, s) /\ g.function_code = 1 /\ Truthy(g.coil_values)
       \/ /\ \E rg \in Ranges : IsRangeRequest(f, s, rg)
          /\ g.function_code = 3
          /\ Truthy(g.values)
       \/ /\ IsDiscoveryRequest(f, s)
          /\ g.function_code = 3
          /\ Truthy(g.values)
          /\ Len(Get(g.values)) >= 4

\* C4: the pending table holds at most one entry per slave and request kind,
\* and when two requests of one kind for one slave are followed by two
\* responses, exactly one of the responses changes the hub's state: the
\* other is dropped.
C4_OnePendingPerKind ==
    /\ \A k1, k2 \in DOMAIN pending_requests :
          ( /\ pending_requests[k1].slave_id = pending_requests[k2].slave_id
            /\ pending_requests[k1].type = pending_requests[k2].type )
          => k1 = k2
    /\ \A k \in 4..Len(emitted) : \A s \in SlaveIds :
          ( /\ SameKindRequests(emitted[k - 3], emitted[k - 2], s)
            /\ Answers(emitted[k - 1], emitted[k - 2], s)
            /\ Answers(emitted[k], emitted[k - 2], s) )
          => (ReplayHub(k - 1) # ReplayHub(k - 2))
                 # (ReplayHub(k) # ReplayHub(k - 1))

\* the byte whose bits, least significant first, are entries 8b+1 .. 8b+8 of
\* the list coils
PackedByte(coils, b) ==
    LET bit(i) == IF coils[8 * b + i + 1] THEN 1 ELSE 0
    IN  bit(0) + 2 * bit(1) + 4 * bit(2) + 8 * bit(3)
        + 16 * bit(4) + 32 * bit(5) + 64 * bit(6) + 128 * bit(7)

\* C9: a decoded Read Coils response with byte count N has exactly 8*N coil
\* values, and entries 8b .. 8b+7 are the bits of data byte b, least
\* significant first; the byte 0x01 with byte count 1 gives True followed by
\* seven times False.
C9_CoilUnpacking ==
    \A k \in 1..Len(emitted) :
        (emitted[k].function_code = 1 /\ emitted[k].is_response)
        => LET data == emitted[k].data
               coils == Get(emitted[k].coil_values)
           IN  /\ emitted[k].coil_values # None
               /\ Len(coils) = 8 * data[1]
               /\ \A b \in 0..(data[1] - 1) :
                     PackedByte(coils, b) = data[b + 2]
               /\ data = << 1, 1 >>
                  => coils = << TRUE, FALSE, FALSE, FALSE,
                                FALSE, FALSE, FALSE, FALSE >>

\* the reply with the one bitmap byte 0x01 has been decoded: coil 0 is set
C9_Witness ==
    /\ Len(emitted) = 1
    /\ emitted[1].function_code = 1
    /\ emitted[1].is_response
    /\ emitted[1].data = << 1, 1 >>
    /\ emitted[1].coil_values
           = Some(<< TRUE, FALSE, FALSE, FALSE, FALSE, FALSE, FALSE, FALSE >>)

\* replaying the frames handed over gives the hub's state
ReplayIsHub == ReplayHub(Len(emitted)) = CurrentHub

\* C11: two consecutive notifications of the coordinator are at least 5
\* seconds apart: a step delivers at most one notification, the timestamp
\* the hub keeps is the time of the last notification, and a notification
\* after the first comes at least 5 seconds after that time.
C11_ThrottleSafety ==
    [][/\ updates' # updates
          => /\ updates' = updates + 1
             /\ last_coordinator_update' = now'
             /\ updates > 0 => now' - last_coordinator_update >= 5
       /\ last_coordinator_update' # last_coordinator_update
          => updates' # updates]_vars

\* the second notification has been delivered at time 5, the first one can
\* only have been delivered at time 0
C11_Witness ==
    /\ updates = 2
    /\ last_coordinator_update = 5
    /\ now = 5

\* C12: a store change whose notification was throttled is delivered once the
\* 5-second interval has elapsed, even if no further frame or sweep change
\* occurs: whenever a change is unreported and the interval has elapsed, a
\* notification follows.
C12_ThrottleCoalescing ==
    (unreported /\ now - last_coordinator_update >= COORDINATOR_UPDATE_INTERVAL)
        ~> ~unreported

(***************************************************************************)
(* The write path                                                          *)
(***************************************************************************)
\* the last n bytes of a sequence
LastN(seq, n) == SubSeq(seq, Len(seq) - n + 1, Len(seq))

\* the frame the specification gives for a write of value to slave_id
SetpointFrame(slave_id, value) ==
    LET head == << slave_id, 6, 0, 144, value \div 256, value % 256 >>
        crc == calculate_crc[head]
    IN  head \o << crc % 256, crc \div 256 >>

\* C13: a write_setpoint that succeeds has written exactly the 8 bytes
\* [slave][0x06][0x00 0x90][value, big-endian][CRC-16 low, high] and nothing
\* else; for slave 5 and 21.5 degrees they are 05 06 00 90 00 D7 C8 3D
C13_SetpointEncoding ==
    [][\A c \in Callers :
          /\ (calls[c].pc = "waiting" /\ calls'[c].pc = "draining")
             => \E value \in 0..65535 :
                   /\ calls[c].temperature % 10 = 0
                      => value * 10 = calls[c].temperature
                   /\ transport' =
                          transport \o SetpointFrame(calls[c].slave_id, value)
                   /\ Len(transport') = Len(transport) + 8
                   /\ (calls[c].slave_id = 5 /\ calls[c].temperature = 2150)
                      => LastN(transport', 8) =
                             << 5, 6, 0, 144, 0, 215, 200, 61 >>
          /\ (calls[c].result # "ok" /\ calls'[c].result = "ok")
             => /\ calls[c].pc = "draining"
                /\ transport' = transport
                /\ Len(transport) >= 8
                /\ LastN(transport, 8)[1] = calls[c].slave_id
                /\ SubSeq(LastN(transport, 8), 2, 4) = << 6, 0, 144 >>
          /\ transport' # transport
             => \E d \in Callers :
                   calls[d].pc = "waiting" /\ calls'[d].pc = "draining"]_vars

C13_Witness ==
    /\ \E c \in Callers : calls[c].result = "ok"
    /\ transport = << 5, 6, 0, 144, 0, 215, 200, 61 >>

\* temperature * 10 rounded to the nearest integer, temperature in hundredths
RoundedValue(temperature) == (temperature + 5) \div 10

\* C14: the value written is temperature * 10 rounded to the nearest integer
\* (21.57 is written as 216), and a call whose rounded value is outside
\* 0..65535 (-0.09 gives -1) fails and writes nothing
C14_RangeAndRounding ==
    [][\A c \in Callers :
          (calls[c].pc = "waiting" /\ calls'[c] # calls[c])
          => LET value == RoundedValue(calls[c].temperature)
             IN  /\ calls'[c].pc = "draining"
                    => /\ ValueInRange(value)
                       /\ transport' =
                              transport \o SetpointFrame(calls[c].slave_id, value)
                 /\ ~ValueInRange(value)
                    => /\ calls'[c].result = "failed"
                       /\ transport' = transport]_vars

\* C15: a call fails when there is no live transport, when the scaled value
\* is outside 0..65535 and when the write or the flush raises; in the first
\* two cases nothing is written, a call that wrote nothing never succeeds,
\* and no call changes the slave store or the pending table
C15_WriteErrors ==
    [][\A c \in Callers :
          /\ (calls[c].pc = "waiting" /\ calls'[c] # calls[c])
             => /\ (\/ NoLiveWriter
                    \/ ~ValueInRange(RoundedValue(calls[c].temperature)))
                   => /\ calls'[c].pc = "idle"
                      /\ calls'[c].result = "failed"
                      /\ transport' = transport
                /\ transport' = transport => calls'[c].result = "failed"
                /\ UNCHANGED << discovered_slaves, pending_requests >>
          /\ (calls[c].pc = "draining" /\ calls'[c] # calls[c])
             => /\ calls'[c].pc = "idle"
                /\ calls'[c].result \in {"ok", "failed"}
                /\ transport' = transport
                /\ UNCHANGED << discovered_slaves, pending_requests >>]_vars

\* the callers between acquiring and releasing the write lock
Holders == { c \in Callers : calls[c].pc = "draining" }

\* the transport carries whole setpoint frames one after the other
RECURSIVE WholeFrames(_)
WholeFrames(bytes) ==
    \/ bytes = << >>
    \/ /\ Len(bytes) >= 8
       /\ bytes[2] = 6
       /\ PackLE(calculate_crc[SubSeq(bytes, 1, 6)]) = SubSeq(bytes, 7, 8)
       /\ WholeFrames(SubSeq(bytes, 9, Len(bytes)))

\* C16: at most one write_setpoint call is between acquiring and releasing
\* the write lock, the lock is held by that call, and the bytes on the
\* transport are whole 8-byte setpoint frames, never interleaved
C16_WriteMutex ==
    /\ Cardinality(Holders) <= 1
    /\ \A c \in Callers : c \in Holders <=> write_lock = Some(c)
    /\ WholeFrames(transport)
    /\ Len(transport) <= 8 * writes

C16_Witness ==
    /\ \E c, d \in Callers : calls[c].pc = "draining" /\ calls[d].pc = "waiting"
    /\ Len(transport) = 8

(***************************************************************************)
(* Reconnects and the slave store                                          *)
(***************************************************************************)
\* the bytes of a handled frame as they were on the wire
WireOf(frame) == Wire(<< frame.slave_id, frame.function_code >> \o frame.data)

\* w is a run of consecutive bytes of data
OccursIn(w, data) ==
    \E k \in 0..Len(data) : SubSeq(data, k + 1, k + Len(w)) = w

\* C17: after each reconnect path of the monitor loop the buffer is empty
\* before the next read, and a frame handled by the first read after a
\* reconnect lies wholly in the bytes of that read
C17_ReconnectClearsBuffer ==
    /\ [](reconnected => buffer = << >>)
    /\ [][(reconnected /\ ~reconnected')
          => \E data \in ReconnectChunks :
                /\ MonitorRead(data)
                /\ \A i \in 1..Len(handled') : OccursIn(WireOf(handled'[i]), data)]_vars

C17_Witness ==
    /\ cleared = HeadLen
    /\ reconnected
    /\ buffer = << >>

\* C18: the set of slave ids in the store only grows, whatever happens:
\* frames, sweeps, reconnects, write_setpoint calls, transport errors
C18_SlavesNeverRemoved ==
    [][DOMAIN discovered_slaves \subseteq DOMAIN discovered_slaves']_vars

\* slave 3 was seen at 0 and swept at 301, the loop has reconnected and a
\* write has failed: slave 3 is still in the store
C18_Witness ==
    /\ 3 \in DOMAIN discovered_slaves
    /\ discovered_slaves[3].coils # None
    /\ ~discovered_slaves[3].available
    /\ now = AVAILABILITY_TIMEOUT + 1
    /\ reconnected
    /\ \E c \in Callers : calls[c].result = "failed"

\* slave s is in the store and marked available
IsAvailable(slaves, s) == s \in DOMAIN slaves /\ slaves[s].available

\* this step handles one response frame for slave s and the response is
\* accepted: it uses up a pending entry of s
AcceptedUpdate(s) ==
    /\ reads' = reads + 1
    /\ Len(handled') = 1
    /\ handled'[1].slave_id = s
    /\ handled'[1].is_response
    /\ \E key \in DOMAIN pending_requests :
          key[1] = s /\ key \notin DOMAIN pending_requests'

\* C19: an accepted update for a slave makes it available; an available
\* slave becomes unavailable only when last seen more than 300 seconds ago;
\* an unavailable slave stays so until its next accepted update; and an
\* available slave last seen more than 300 seconds ago is eventually
\* unavailable or seen again
C19_AvailabilityLifecycle ==
    /\ [][\A s \in SlaveIds :
             /\ AcceptedUpdate(s)
                => /\ IsAvailable(discovered_slaves', s)
                   /\ discovered_slaves'[s].last_seen = now
             /\ (IsAvailable(discovered_slaves, s)
                 /\ ~IsAvailable(discovered_slaves', s))
                => Overdue(s)
             /\ (~IsAvailable(discovered_slaves, s)
                 /\ IsAvailable(discovered_slaves', s))
                => AcceptedUpdate(s)]_vars
    /\ \A s \in SlaveIds :
          (IsAvailable(discovered_slaves, s) /\ Overdue(s))
              ~> ~(IsAvailable(discovered_slaves, s) /\ Overdue(s))

\* slave 3 answered at 0 and a sweep at 301 has made it unavailable
C19_Witness ==
    /\ 3 \in DOMAIN discovered_slaves
    /\ ~discovered_slaves[3].available
    /\ discovered_slaves[3].last_seen = 0
    /\ discovered_slaves[3].coils # None \/ discovered_slaves[3].registers # None
    /\ now = 301

\* C20: once a frame of a recognised kind referencing slave s has been
\* processed, a request (coils, register range 1/2/3, discovery) or an
\* accepted response, the store has an entry for s
C20_CreatedOnFirstFrame ==
    [][\A s \in SlaveIds :
          ( /\ reads' = reads + 1
            /\ Len(handled') = 1
            /\ handled'[1].slave_id = s
            /\ \/ handled'[1].is_request /\ ~RequestMiss(handled'[1])
               \/ AcceptedUpdate(s) )
          => s \in DOMAIN discovered_slaves']_vars

(***************************************************************************)
(* Discovery, the echo of a write, teardown                                *)
(***************************************************************************)
\* slave s is in the store as a discovery request made it: no value yet
Unresolved(s) ==
    /\ s \in DOMAIN discovered_slaves
    /\ ~discovered_slaves[s].available
    /\ discovered_slaves[s].temperature = None
    /\ discovered_slaves[s].humidity = None

\* C21: a discovery request for a slave not yet in the store records the
\* discovery pending entry and creates the slave unavailable and without
\* temperature or humidity; and the listener is notified of the new slave:
\* a slave the listener has not been told of is eventually surfaced
C21_DiscoverySurfaced ==
    /\ [][\A s \in SlaveIds :
             ( /\ reads' = reads + 1
               /\ Len(handled') = 1
               /\ IsDiscoveryRequest(handled'[1], s)
               /\ s \notin DOMAIN discovered_slaves )
             => /\ << s, "" >> \in DOMAIN pending_requests'
                /\ s \in DOMAIN discovered_slaves'
                /\ ~discovered_slaves'[s].available
                /\ discovered_slaves'[s].temperature = None
                /\ discovered_slaves'[s].humidity = None]_vars
    /\ \A s \in SlaveIds :
          (Unresolved(s) /\ s \notin surfaced) ~> (s \in surfaced)

\* the hub after one read of data into the empty buffer
AfterRead(data) == ProcessBatch(<< >>, data, CurrentHub, now).hub

\* the hub variables are those of the hub value h
HubIs(h) ==
    /\ discovered_slaves' = h.slaves
    /\ pending_requests' = h.pending
    /\ last_coordinator_update' = h.last_update
    /\ updates' = h.updates

\* C22: a CRC-valid Write Single Register frame in the received stream
\* changes neither the slave store nor the pending table nor the
\* notification state, whatever is pending, and the frame that follows it
\* is handed to the correlator and has the effect it has without the echo
C22_EchoIgnored ==
    [][\A data \in EchoChunks :
          ( /\ Len(data) >= Len(Echo)
            /\ SubSeq(data, 1, Len(Echo)) = Echo
            /\ buffer = << >>
            /\ reads' = reads + 1
            /\ MonitorRead(data) )
          => /\ buffer' = << >>
             /\ data = Echo => UNCHANGED hubVars
             /\ data # Echo
                => /\ handled' # << >>
                   /\ WireOf(handled'[Len(handled')]) = SubSeq(data, Len(Echo) + 1, Len(data))
                   /\ HubIs(AfterRead(SubSeq(data, Len(Echo) + 1, Len(data))))]_vars

\* the echo and the coils reply of slave 5 came in one read while the coils
\* request and the discovery request of slave 5 were pending
C22_Witness ==
    /\ Len(handled) = 2
    /\ WireOf(handled[1]) = Echo
    /\ WireOf(handled[2]) = CoilsReply(5, << 1 >>)
    /\ 5 \in DOMAIN discovered_slaves
    /\ discovered_slaves[5].coils # None
    /\ DOMAIN pending_requests = { << 5, "" >> }

\* C23: nothing but cancellation stops the monitor loop: after a timeout,
\* an end of stream, an I/O error, a failed connection attempt or an error
\* raised while a batch is processed the loop is still running, and when
\* the gateway accepts connections and sends frames again a further batch
\* is read; and a whole frame that is read is handed to the correlator
C23_MonitorUnkillable ==
    /\ [][MonitorRunning => MonitorRunning']_vars
    /\ [][\A data \in ReconnectFrames :
             ( /\ reads' = reads + 1
               /\ MonitorRead(data) )
             => /\ handled' # << >>
                /\ WireOf(handled'[Len(handled')]) = data]_vars
    /\ \A k \in 0..(MaxReads - 1) : (reads = k) ~> (reads > k)

\* a listener raised while a reply was handled, the connection was then
\* lost and set up again, and a later batch was handled
C23_Witness ==
    /\ reads = MaxReads
    /\ cleared > 0
    /\ handled # << >>
    /\ updates = 0
    /\ \E s \in DOMAIN discovered_slaves : discovered_slaves[s].available

\* async_close has returned
Closed == close_pc = "closed"

\* C24: once async_close has returned the transport is closed and the slave
\* store and the pending table never change again; a call of
\* async_write_setpoint that was waiting for the drain ends in success or
\* in a failure, one that has not written yet fails and writes nothing,
\* and no call is left waiting for a lock nobody will release
C24_Teardown ==
    /\ [](Closed => NoLiveWriter)
    /\ [](\A c \in Callers :
             calls[c].pc = "waiting"
             => \/ write_lock = None
                \/ \E d \in Callers : calls[d].pc = "draining")
    /\ [][Closed
          => /\ Closed'
             /\ UNCHANGED << discovered_slaves, pending_requests, buffer >>
             /\ \A c \in Callers :
                   /\ (calls[c].pc = "waiting" /\ calls'[c] # calls[c])
                      => /\ calls'[c].pc = "idle"
                         /\ calls'[c].result = "failed"
                         /\ transport' = transport
                   /\ (calls[c].pc = "draining" /\ calls'[c] # calls[c])
                      => /\ calls'[c].pc = "idle"
                         /\ calls'[c].result \in {"ok", "failed"}]_vars

\* after the close one call that was in flight has succeeded and another
\* has failed; slave 3, seen before the close, is in the store
C24_Witness ==
    /\ Closed
    /\ \E c, d \in Callers :
          calls[c].result = "ok" /\ calls[d].result = "failed"
    /\ 3 \in DOMAIN discovered_slaves
    /\ discovered_slaves[3].available
    /\ now = AVAILABILITY_TIMEOUT + 1

(***************************************************************************)
(* The decoder and the re-framer                                           *)
(***************************************************************************)
\* w has at least 4 bytes and ends with the CRC-16 of the bytes before it,
\* low byte first
CrcValid(w) ==
    /\ Len(w) >= 4
    /\ LET crc == calculate_crc[SubSeq(w, 1, Len(w) - 2)]
       IN  /\ w[Len(w) - 1] = crc % 256
           /\ w[Len(w)] = crc \div 256

\* C25: decode_frame returns a frame exactly for the windows of at least 4
\* bytes whose last two bytes are the CRC-16, low byte first, of the bytes
\* before them; the frame has the window's slave id, function code and
\* payload; the frame of build_write_register_frame decodes
C25_CrcValidity ==
    returned # << >>
    => /\ (returned[1] # None) <=> CrcValid(window)
       /\ returned[1] # None
          => /\ Get(returned[1]).slave_id = window[1]
             /\ Get(returned[1]).function_code = window[2]
             /\ Get(returned[1]).data = SubSeq(window, 3, Len(window) - 2)
       /\ window \in { << 5, 6, 0, 144, 0, 215, 200, 61 >>,
                       build_write_register_frame(5, SETPOINT_REGISTER, 0) }
          => returned[1] # None
       /\ window = << 5, 6, 0, 144, 0, 215, 61, 200 >> => returned[1] = None

C25_Witness ==
    /\ window = << 5, 6, 0, 144, 0, 215, 200, 61 >>
    /\ returned # << >>
    /\ returned[1] # None

\* the payload is a byte count N >= 1 followed by exactly N bytes
CountedPayload(payload) ==
    /\ Len(payload) >= 2
    /\ payload[1] = Len(payload) - 1

\* C30: a CRC-valid window with function code 1 or 3 whose payload is a byte
\* count N >= 1 and N data bytes is classified a response, with 8 * N coil
\* values for function 1 and N \div 2 register values for function 3, for
\* every N
C30_CountedIsResponse ==
    ( /\ returned # << >>
      /\ returned[1] # None
      /\ Get(returned[1]).function_code \in {1, 3}
      /\ CountedPayload(Get(returned[1]).data) )
    => LET frame == Get(returned[1])
           N == frame.data[1]
       IN  /\ frame.is_response
           /\ ~frame.is_request
           /\ frame.function_code = 1
              => /\ frame.coil_values # None
                 /\ Len(Get(frame.coil_values)) = 8 * N
           /\ frame.function_code = 3
              => /\ frame.values # None
                 /\ Len(Get(frame.values)) = N \div 2

\* C27: the re-framer takes no unclassified window as a frame: every frame
\* it cuts off the buffer and hands on is a request or a response; a
\* Write Single Register frame read into the empty buffer, no prefix of
\* which is a request or a response, loses its first bytes one by one until
\* fewer than 4 are left
C27_UnclassifiedNoMatch ==
    [][reads' = reads + 1
       => /\ \A i \in 1..Len(handled') :
                handled'[i].is_request \/ handled'[i].is_response
          /\ (buffer = << >> /\ MonitorRead(Echo))
             => buffer' = LastN(Echo, 3)]_vars

\* this step sets up, loses or replaces the connection, or clears the buffer
ConnectionStep ==
    \/ << reader, writer >>' # << reader, writer >>
    \/ cleared' # cleared
    \/ reconnected' /\ ~reconnected

\* C26: a connect failure, a read timeout, a read error or a closed
\* connection, and the reconnect that follows, change no slave's values,
\* last_seen or available flag and deliver no notification; a slave becomes
\* unavailable only in a step that touches neither the connection nor the
\* buffer, when it was last seen more than 300 seconds ago
C26_TransportErrorsInert ==
    [][/\ ConnectionStep
          => UNCHANGED << discovered_slaves, pending_requests, updates,
                          last_coordinator_update, surfaced >>
       /\ \A s \in SlaveIds :
             (IsAvailable(discovered_slaves, s)
              /\ ~IsAvailable(discovered_slaves', s))
             => /\ Overdue(s)
                /\ UNCHANGED << connVars, buffer, reads, cleared,
                                reconnected >>]_vars

\* the connection was lost and could not be set up again; slave 3 still has
\* its registers and is available
C26_Witness ==
    /\ reconnected
    /\ reader = None
    /\ 3 \in DOMAIN discovered_slaves
    /\ discovered_slaves[3].available
    /\ discovered_slaves[3].registers # None

\* C28: while a write_setpoint call holds the write lock the monitor loop
\* neither closes nor replaces the writer: no reconnect happens, and the
\* writer changes at most by the gateway dropping the connection
C28_WriteSideExclusive ==
    [][write_lock # None
       => /\ reconnected' => reconnected
          /\ cleared' = cleared
          /\ reader' = reader
          /\ writer' \in {writer, Some("closing")}]_vars

\* the inner loop's state when the batch of this step starts
BatchStart ==
    [buffer |-> buffer \o SubSeq(stream, pos + 1, pos'), iterations |-> 0,
     hub |-> CurrentHub, emitted |-> << >>]

\* one pass of the inner loop from st to st2 shortens the buffer: by one
\* byte when it hands no frame on, by the frame's length when it does
PassShortens(st, st2) ==
    /\ st2.iterations = st.iterations + 1
    /\ Len(st2.emitted) = Len(st.emitted)
       => st2.buffer = Tail(st.buffer)
    /\ Len(st2.emitted) # Len(st.emitted)
       => /\ st2.emitted = Append(st.emitted, st2.emitted[Len(st2.emitted)])
          /\ Len(WireOf(st2.emitted[Len(st2.emitted)])) >= 4
          /\ st.buffer = WireOf(st2.emitted[Len(st2.emitted)]) \o st2.buffer

\* C29: after a batch the buffer is no longer than it was before plus the
\* bytes appended; every pass of the inner loop shortens the buffer, by
\* exactly one byte when no frame is handed on and by the frame's length,
\* at least 4, when one is; the loop has ended after at most as many passes
\* as the buffer had bytes
C29_DiscardMonotonicity ==
    [][pos' > pos
       => /\ Len(buffer') <= Len(buffer) + (pos' - pos)
          /\ \A k \in 0..(Len(buffer) + (pos' - pos)) :
                \E st \in { FrameLoop(BatchStart, k, now) } :
                   /\ LoopRuns(st)
                      => \E st2 \in { LoopBody(st, now) } :
                            PassShortens(st, st2)
                   /\ k = Len(buffer) + (pos' - pos)
                      => ~LoopRuns(st) /\ buffer' = st.buffer]_vars

\* two bytes of noise and a request have arrived whole: the noise was
\* discarded byte by byte and the request handed on
C29_Witness ==
    /\ stream = << 9, 9 >>
                    \o ReadRequest(5, 3, TEMP_HUMIDITY_REGISTER, REGISTER_COUNT)
    /\ pos = Len(stream)
    /\ Len(emitted) = 1
    /\ buffer = << >>

\* C31: the buffer never holds more than one read chunk
C31_BufferBounded == Len(buffer) <= READ_SIZE

\* the length of every frame of the busy bus, that of a read request
FloodFrameLen == Len(ReadRequest(3, 3, 0, 1))

\* C32: once the last byte of the stream has arrived, every frame of it is
\* eventually handed to _handle_frame, with no reconnect and although no
\* further byte arrives
C32_FramesEventuallyHanded ==
    (pos = Len(stream)) ~> (Len(emitted) * FloodFrameLen = Len(stream))

\* the function code of the responses that can use up a pending entry
\* stored under the key suffix
KindCode(suffix) == IF suffix = "_coils" THEN 1 ELSE 3

\* this step handles exactly one frame, a response of slave s with
\* function code fc
HandlesResponse(s, fc) ==
    /\ reads' = reads + 1
    /\ Len(handled') = 1
    /\ handled'[1].is_response
    /\ handled'[1].slave_id = s
    /\ handled'[1].function_code = fc

\* C33: a pending entry leaves the table only in a step that handles a
\* response of its slave and kind; a step that reads no frame (time passing,
\* a sweep, a reconnect, a transport error, a write_setpoint call) leaves
\* the table unchanged; and a coils response is matched against the coils
\* entry of its slave however long ago it was recorded
C33_PendingNeverExpires ==
    [][/\ \A key \in DOMAIN pending_requests :
             key \notin DOMAIN pending_requests'
                => HandlesResponse(key[1], KindCode(key[2]))
       /\ reads' = reads => pending_requests' = pending_requests
       /\ \A s \in SlaveIds :
             ( /\ << s, "_coils" >> \in DOMAIN pending_requests
               /\ HandlesResponse(s, 1)
               /\ Truthy(handled'[1].coil_values) )
             => /\ << s, "_coils" >> \notin DOMAIN pending_requests'
                /\ IsAvailable(discovered_slaves', s)]_vars

\* the coils request of slave 3 was recorded at 0; 301 seconds, a reconnect
\* and a write_setpoint call later its entry is still pending
C33_Witness ==
    /\ << 3, "_coils" >> \in DOMAIN pending_requests
    /\ pending_requests[<< 3, "_coils" >>].timestamp = 0
    /\ now = AVAILABILITY_TIMEOUT + 1
    /\ reconnected
    /\ writes > 0

\* C34: whenever a discovery entry is pending for a slave, the slave is in
\* the store
C34_DiscoveryPendingHasSlave ==
    \A key \in DOMAIN pending_requests :
        key[2] = "" => key[1] \in DOMAIN discovered_slaves

\* a discovery request of slave 5 is pending and slave 5, created by it, has
\* not answered yet
C34_Witness ==
    /\ << 5, "" >> \in DOMAIN pending_requests
    /\ 5 \in DOMAIN discovered_slaves
    /\ ~discovered_slaves[5].available
    /\ discovered_slaves[5].temperature = None

\* the register addresses of the three monitored ranges
MonitoredAddresses ==
    UNION { rg.start..(rg.start + rg.count - 1) : rg \in Ranges }

\* C35: every register address in a slave's registers map lies inside one
\* of the three monitored ranges
C35_RegistersInRanges ==
    \A s \in DOMAIN discovered_slaves :
        discovered_slaves[s].registers # None
            => DOMAIN Get(discovered_slaves[s].registers)
                   \subseteq MonitoredAddresses

\* slave data b is slave data a with at most the available flag cleared
OnlyCleared(a, b) ==
    /\ b = [a EXCEPT !.available = b.available]
    /\ b.available => a.available

\* C36: a step that reads no frame, the availability sweep among them,
\* changes the store at most by clearing available flags: it adds no slave,
\* sets no flag, and changes no last_seen, temperature, humidity, coils or
\* registers, nor the pending table; and a sweep that follows a sweep at the
\* same time changes nothing and sends no notification
C36_SweepOnlyClears ==
    /\ [][reads' = reads
          => /\ DOMAIN discovered_slaves' = DOMAIN discovered_slaves
             /\ \A s \in DOMAIN discovered_slaves :
                   OnlyCleared(discovered_slaves[s], discovered_slaves'[s])
             /\ pending_requests' = pending_requests]_vars
    /\ [](\E h1 \in { _check_slave_availability(CurrentHub, now) } :
             _check_slave_availability(h1, now) = h1)

\* slave 3 answered a discovery request at 0 and the sweep at 301 has
\* cleared its flag, leaving its temperature and last_seen as they were
C36_Witness ==
    /\ 3 \in DOMAIN discovered_slaves
    /\ ~discovered_slaves[3].available
    /\ discovered_slaves[3].temperature # None
    /\ discovered_slaves[3].last_seen = 0
    /\ now = AVAILABILITY_TIMEOUT + 1

\* this step handles exactly one frame, a request
HandlesRequest ==
    /\ reads' = reads + 1
    /\ Len(handled') = 1
    /\ handled'[1].is_request

\* C37: a slave becomes available, and the last_seen of a slave in the
\* store changes, only in a step that accepts a response for it; a step
\* that handles a request leaves every available flag and every last_seen
\* as they were and creates no available slave
C37_RequestsNeverAvail ==
    [][\A s \in SlaveIds :
          /\ (~IsAvailable(discovered_slaves, s)
              /\ IsAvailable(discovered_slaves', s))
             => AcceptedUpdate(s)
          /\ (/\ s \in DOMAIN discovered_slaves
              /\ discovered_slaves'[s].last_seen
                     # discovered_slaves[s].last_seen)
             => AcceptedUpdate(s)
          /\ HandlesRequest
             => /\ IsAvailable(discovered_slaves', s)
                       = IsAvailable(discovered_slaves, s)
                /\ s \in DOMAIN discovered_slaves
                   => discovered_slaves'[s].last_seen
                          = discovered_slaves[s].last_seen]_vars

\* slave 5 was created by a discovery request; a later request for it has
\* just been handled and it is still unavailable, last seen at its creation
C37_Witness ==
    /\ 5 \in DOMAIN discovered_slaves
    /\ ~discovered_slaves[5].available
    /\ discovered_slaves[5].temperature = None
    /\ discovered_slaves[5].last_seen < now
    /\ Len(handled) = 1
    /\ handled[1].is_request
    /\ handled[1].slave_id = 5
    /\ pending_requests[<< 5, "" >>].timestamp = now

\* the bytes w are the first bytes of data
StartsWith(data, w) ==
    Len(data) >= Len(w) /\ SubSeq(data, 1, Len(w)) = w

\* C38: a frame that was handed to _handle_frame is cut off the buffer, also
\* when the handler raised: after a batch the buffer does not begin with the
\* bytes of the frame handled last, so the next batch cannot hand it on again
C38_HandledOnce ==
    [][(reads' = reads + 1 /\ handled' # << >>)
       => ~StartsWith(buffer', WireOf(handled'[Len(handled')]))]_vars

\* C39: when the async_set_temperature call of a caller ends in a failure,
\* the target temperature the entity caches is what it cached when the call
\* began
C39_FailedSetKeepsTarget ==
    [][\A c \in ClimateCallers :
          ( /\ calls[c].pc \in {"waiting", "draining"}
            /\ calls'[c].pc = "idle"
            /\ calls'[c].result = "failed" )
          => _attr_target_temperature'[calls[c].slave_id]
                 = target_before[c]]_vars
====
